---- MODULE Spec2Model ----
(***************************************************************************)
(* A model of the agent tool-orchestration engine of arielhenryson/ai-agent *)
(*                                                                         *)
(*   LLM.run                      src/api/api/llm/llm.py                   *)
(*   Agent.run                    src/api/build/lib/api/agent/agent.py     *)
(*   the chat endpoints           src/api/build/lib/api/main.py            *)
(*   MongoManager (report cache)  src/api/api/db/mongo.py                  *)
(*                                                                         *)
(* Spec      one run of LLM.run, step by step between its suspension       *)
(*           points, against a nondeterministic model service, tools,      *)
(*           credential provider and message store, with Agent.run and     *)
(*           generate_message_and_update around it.                        *)
(* SpecCache concurrent cache_sql_report / get_cached_sql_report calls     *)
(*           against the sql_reports_cache collection and a clock.         *)
(* SpecCancel   Spec with cancel_chat_generation racing against the run.   *)
(* SpecKey      _get_cache_key_from_config over bounded configurations.    *)
(* SpecExplorer sql_explorer_tool around the report cache.                 *)
(* SpecToken    TokenManager.get_token, two callers and a timer.           *)
(* SpecTasks    the chat endpoints of main.py, their run tasks,            *)
(*              THREAD_STATUS and RUNNING_TASKS.                           *)
(* SpecSql      execute_sql_tool, its executors, and sqlite_tool.          *)
(* SpecShared   SpecCancel on a thread that others push to as well.        *)
(* SpecUpdate   MongoManager.update_message_content on one thread.         *)
(***************************************************************************)
EXTENDS Integers, Sequences, FiniteSets, TLC

(***************************************************************************)
(* Bounds of the model.                                                    *)
(***************************************************************************)
\* max_calls of a run is drawn from 0..MaxCalls
MaxCalls == 3
\* a model turn carries at most MaxParts function_call parts
MaxParts == 2
\* the model service requests at most MaxToolCalls tools over one run
MaxToolCalls == 2
\* at most MaxDbFailures create_message calls of a run fail
MaxDbFailures == 1
\* the number of runs that write the report cache concurrently
NumWriters == 2
\* another run of the same thread pushes at most MaxOther messages
MaxOther == 1
\* at most MaxUpdates calls of update_message_content are made
MaxUpdates == 2
\* at most MaxTasks run tasks are created by the chat endpoints
MaxTasks == 3
\* the timer of the token cache runs from 0 to MaxTimer ticks
MaxTimer == 3
\* the token endpoint issues at most MaxIssued tokens
MaxIssued == 3
\* the clock runs from 0 to MaxClock
MaxClock == 3
\* max_age_days of a cache read is drawn from 1..MaxAge
MaxAge == 2

(***************************************************************************)
(* Python values.  None is a distinguished string; a dict is a function    *)
(* from keys to values.                                                    *)
(***************************************************************************)
None == "<None>"

\* Python truthiness of an optional string ('if thread_id', 'if final_text')
Truthy(s) == s # None /\ s # ""

EmptyDict == [key \in {} |-> None]

(***************************************************************************)
(* The tools list of the run.  A tool is a Python function: a __name__,    *)
(* the parameters of its signature (all required, no keyword catch-all), whether    *)
(* it is a coroutine function, and what its body may do once it runs.      *)
(***************************************************************************)
\* def execute_sql_tool(connection_config: dict, query: str) -> str
ExecuteSqlTool ==
    [name |-> "execute_sql_tool",
     params |-> {"connection_config", "query"},
     is_async |-> FALSE]

\* async def sql_explorer_tool(connection_config: dict, __thread_id: str, __user_id: str) -> str
SqlExplorerTool ==
    [name |-> "sql_explorer_tool",
     params |-> {"connection_config", "__thread_id", "__user_id"},
     is_async |-> TRUE]

\* the 'tools' argument of LLM.run
tools == <<ExecuteSqlTool, SqlExplorerTool>>

\* what the body of a tool may do once its arguments are bound:
\* return a string, return None, or raise
ToolOutcomes(name) ==
    IF name = "execute_sql_tool"
    THEN {[kind |-> "return", value |-> "Columns: ['count'] Data: [(100,)]"],
          [kind |-> "return", value |-> None],
          [kind |-> "raise", value |-> "OperationalError"]}
    ELSE {[kind |-> "return", value |-> "report"]}

(***************************************************************************)
(* The model service.  A response has no candidates, or one candidate      *)
(* whose parts are function calls, or one candidate with (possibly empty)  *)
(* text.  The function calls the model may emit:                           *)
(***************************************************************************)
Requests ==
    { [name |-> "execute_sql_tool",
       args |-> ("connection_config" :> "cfg") @@ ("query" :> "SELECT COUNT(1) FROM customers")],
      [name |-> "does_not_exist", args |-> EmptyDict],
      [name |-> "sql_explorer_tool", args |-> ("connection_config" :> "cfg")],
      [name |-> "sql_explorer_tool",
       args |-> ("connection_config" :> "cfg") @@ ("__thread_id" :> "t_model")
                   @@ ("__user_id" :> "u_model")] }

\* response.text of a candidate without function calls
Texts == {"", "There are 100 customers.", "json [100]"}

RECURSIVE SeqsUpTo(_, _)
\* all sequences over S of length 1..n
SeqsUpTo(S, n) ==
    IF n = 0 THEN {}
    ELSE LET shorter == SeqsUpTo(S, n - 1)
         IN  {<<x>> : x \in S} \cup shorter
             \cup {Append(s, x) : s \in shorter, x \in S}

NoResponse == [kind |-> "unset"]

\* the responses generate_content may return when 'budget' more tool
\* requests are allowed in the run
ModelResponses(budget) ==
    {[kind |-> "no_candidates"]}
    \cup {[kind |-> "text", text |-> t] : t \in Texts}
    \cup {[kind |-> "calls", calls |-> c] :
            c \in {s \in SeqsUpTo(Requests, MaxParts) : Len(s) <= budget}}

(***************************************************************************)
(* extract_json: the parsed JSON value of a text, or ValueError.           *)
(***************************************************************************)
IsJsonText(text) == text = "json [100]"

extract_json(text) ==
    IF IsJsonText(text)
    THEN [kind |-> "return", value |-> "json:[100]"]
    ELSE [kind |-> "raise", value |-> "ValueError"]

(***************************************************************************)
(* State of one run of LLM.run.                                            *)
(***************************************************************************)
VARIABLES
    \* arguments of the run
    max_calls, jsonResults, delay_ms, thread_id, user_id,
    \* position of the coroutine
    pc,
    \* locals of LLM.run
    messages, intermediate_steps, response, final_result, i, range_next,
    func_call_parts, part_idx, func_results, tool_result_parts_for_history,
    \* what the run returned: [final_result, metadata]
    returned,
    \* the thread document of thread_id in threads_collection: its messages
    thread,
    \* observations of the environment
    token_error,      \* whether token_manager.get_token() raised
    model_calls,      \* the 'contents' of every generate_content call, in order
    model_responses,  \* what every generate_content call returned, in order
    tool_invocations, \* every call of func_to_run with tool_args, in order
    sleeps,           \* number of completed asyncio.sleep(delay_ms) calls
    db_failures,      \* number of create_message calls that raised
    \* the calls of the run that have started and have not returned
    in_flight,
    \* whether task.cancel() was called on the task of the run
    cancel_requested,
    \* generate_message_and_update, the task around the run: "running", or
    \* how it ended
    task

runVars ==
    <<max_calls, jsonResults, delay_ms, thread_id, user_id, pc, messages,
      intermediate_steps, response, final_result, i, range_next,
      func_call_parts, part_idx, func_results, tool_result_parts_for_history,
      returned, thread, token_error, model_calls, model_responses,
      tool_invocations, sleeps, db_failures, in_flight, cancel_requested,
      task>>

(***************************************************************************)
(* State of the report cache: the sql_reports_cache collection, the clock  *)
(* and the cache calls in progress, one per caller.                        *)
(***************************************************************************)
VARIABLES
    \* the documents of sql_reports_cache, in insertion order
    sql_reports_cache,
    \* datetime.now(timezone.utc)
    now,
    \* the cache_sql_report / get_cached_sql_report call of each caller
    cache_call,
    \* per db_path, the last write the store completed
    last_write

cacheVars == <<sql_reports_cache, now, cache_call, last_write>>

(***************************************************************************)
(* State of a cache-key derivation: the connection configuration handed to *)
(* _get_cache_key_from_config and the key it returned.                     *)
(***************************************************************************)
VARIABLES
    key_config,
    cache_key

keyVars == <<key_config, cache_key>>

(***************************************************************************)
(* State of the calls of sql_explorer_tool by one run: the position and    *)
(* the locals of the call in progress, and what the last call returned.    *)
(***************************************************************************)
VARIABLES
    explorer

explorerVars == <<explorer>>

(***************************************************************************)
(* State of the TokenManager singleton: its configuration, its TTLCache,   *)
(* the timer of the cache, the get_token() call of each run and the number *)
(* of tokens the token endpoint has issued.                                *)
(***************************************************************************)
VARIABLES
    \* os.getenv("GEMINI_API_KEY"), os.getenv("LLM_ID"), os.getenv("TOKEN_API_URL")
    static_api_key, client_id, token_url,
    \* TTLCache(maxsize=1, ttl=480): its items, each [key, value, stored_at]
    jwt_cache,
    \* the timer of the TTLCache, in ticks
    timer,
    \* the get_token() call of each run
    token_call,
    \* the number of tokens the endpoint has issued
    issued

tokenVars ==
    <<static_api_key, client_id, token_url, jwt_cache, timer, token_call, issued>>

(***************************************************************************)
(* State of the chat endpoints of main.py: the threads of the store, the   *)
(* RUNNING_TASKS registry and the tasks created for                        *)
(* generate_message_and_update.                                            *)
(***************************************************************************)
VARIABLES
    \* per thread id: "unused", "open" (in the store) or "deleted"
    thread_state,
    \* RUNNING_TASKS: thread id -> task, NoTask where the dict has no entry
    RUNNING_TASKS,
    \* THREAD_STATUS: thread id -> status entry, NoStatus without an entry
    THREAD_STATUS,
    \* the tasks in creation order, each with its thread, its position, the
    \* pending cancellation and how it ended
    tasks

taskVars == <<thread_state, RUNNING_TASKS, THREAD_STATUS, tasks>>

(***************************************************************************)
(* State of a call of execute_sql_tool (execute_sql_tool.py) or of         *)
(* sqlite_tool (sqlight_tool.py): its position, its connection, the        *)
(* transaction of the connection and what the call returned.               *)
(***************************************************************************)
VARIABLES
    sql

sqlVars == <<sql>>

(***************************************************************************)
(* What others have pushed onto the thread of the run: the number of       *)
(* messages of another run of the same thread, and the last request of the *)
(* run during which sql_explorer_tool logged a cache hit.                  *)
(***************************************************************************)
VARIABLES
    pushed

sharedVars == <<pushed>>

(***************************************************************************)
(* State of the calls of MongoManager.update_message_content on one        *)
(* thread document: its messages array and the calls made so far.          *)
(***************************************************************************)
VARIABLES
    \* the messages array of the thread document, each [id, role, content]
    stored_messages,
    \* the calls in order, each with the array before and after it
    updates

updateVars == <<stored_messages, updates>>

(***************************************************************************)
(* State of Agent.run, the caller of LLM.run for a chat message: the text  *)
(* chunks its generator has yielded.                                       *)
(***************************************************************************)
VARIABLES
    yielded

agentVars == <<yielded>>

\* the state added for the endpoints and the tools around the run
extVars == <<taskVars, sqlVars, sharedVars, updateVars, agentVars>>

\* the state outside LLM.run and outside the report cache
auxVars == <<keyVars, explorerVars, tokenVars>>

vars == <<runVars, cacheVars, auxVars, extVars>>

prompt == "How many rows are in table customers?"

NotReturned == [kind |-> "running"]

InitRun ==
    /\ max_calls \in 0..MaxCalls
    /\ jsonResults \in BOOLEAN
    /\ delay_ms \in {0, 10000}
    /\ thread_id \in {None, "t1"}
    /\ user_id \in {None, "u1"}
    /\ pc = "start"
    /\ messages = <<>>
    /\ intermediate_steps = <<>>
    /\ response = NoResponse
    /\ final_result = None
    /\ i = 0
    /\ range_next = 0
    /\ func_call_parts = <<>>
    /\ part_idx = 0
    /\ func_results = None
    /\ tool_result_parts_for_history = <<>>
    /\ returned = NotReturned
    /\ thread = <<>>
    /\ token_error = FALSE
    /\ model_calls = <<>>
    /\ model_responses = <<>>
    /\ tool_invocations = <<>>
    /\ sleeps = 0
    /\ db_failures = 0
    /\ in_flight = {}
    /\ cancel_requested = FALSE
    /\ task = "running"

(***************************************************************************)
(* Helpers of LLM.run.                                                     *)
(***************************************************************************)
AuthErrorText == "Error: Could not authenticate with LLM service."

\* get_token() called outside any try block: its exception leaves the run
AuthFailurePropagates == [kind |-> "raise", exception |-> "EnvironmentError"]

\* except Exception as e: return "Error: Could not authenticate ...", {}
AuthFailure ==
    [kind |-> "return", final_result |-> AuthErrorText, metadata |-> EmptyDict]

\* an off-by-one loop bound: one iteration more than max_calls
RangeHasNextInclusive(next, n) == next <= n

\* for i in range(max_calls): whether the range yields another index
RangeHasNext(next, n) == next < n

\* 'continue' in place of the break: the loop goes on to its next iteration
AfterNoCandidatesContinue == "loop"

\* if not response.candidates: final_result = ""; break
AfterNoCandidates == "end"

\* a delay test that forgets the first iteration
DelayDueAlways(idx, delay) == delay > 0

\* if i > 0 and delay_ms > 0:
DelayDue(idx, delay) == idx > 0 /\ delay > 0

\* a seed message that does not carry the prompt
UserMessageWithoutText(text) == [role |-> "user", parts |-> <<[text |-> ""]>>]

\* messages = [{'role': 'user', 'parts': [{'text': prompt}]}]
UserMessage(text) == [role |-> "user", parts |-> <<[text |-> text]>>]

NoTool == [name |-> None, params |-> {}, is_async |-> FALSE]

\* next((f for f in tools if f.__name__ == tool_name), None)
FindTool(tool_name) ==
    LET found == {j \in 1..Len(tools) : tools[j].name = tool_name}
    IN  IF found = {} THEN NoTool
        ELSE tools[CHOOSE j \in found : \A l \in found : j <= l]

\* sig = inspect.signature(func_to_run); the hidden context the dispatcher
\* writes into tool_args before the call
InjectContext(func_to_run, tool_args, tid, uid) ==
    IF "__thread_id" \in func_to_run.params
    THEN ("__thread_id" :> tid) @@ tool_args
    ELSE tool_args

\* func_to_run(**tool_args): Python binds the keyword arguments to the
\* signature (TypeError on a missing or an unexpected keyword) and only then
\* runs the body
CallOutcomes(func_to_run, tool_args) ==
    IF DOMAIN tool_args = func_to_run.params
    THEN ToolOutcomes(func_to_run.name)
    ELSE {[kind |-> "raise", value |-> "TypeError"]}

ExecutionErrorText(tool_name, e) ==
    "Error: Failed to execute tool '" \o tool_name \o "'. Reason: " \o e

\* the else branch of 'if func_to_run' left out: func_results stays None
UnknownToolLeftNone(tool_name) == None

UnknownToolText(tool_name) ==
    "Error: Tool '" \o tool_name
        \o "' does not exist. Please choose from the available tools."

\* an except branch that keeps only the exception text
CallResultBareException(tool_name, outcome) == outcome.value

\* try: func_results = func_to_run(...)  except Exception as e: func_results = f"Error: ..."
CallResult(tool_name, outcome) ==
    IF outcome.kind = "raise"
    THEN ExecutionErrorText(tool_name, outcome.value)
    ELSE outcome.value

\* the result recorded as the tool returned it
CoerceNoneSkipped(result) == result

\* if func_results is None: func_results = ""
CoerceNone(result) == IF result = None THEN "" ELSE result

FunctionResponsePart(tool_name, result) ==
    [function_response |-> [name |-> tool_name, response |-> [content |-> result]]]

\* the one message appended to the history after all calls of a turn
ToolMessage(parts) == [role |-> "tool", parts |-> parts]

\* messages.append(...) placed inside the for loop: one message per result
HistoryPerPart(history, parts, is_last) ==
    Append(history, ToolMessage(<<parts[Len(parts)]>>))

\* the history after a request was processed: messages.append(...) follows
\* the for loop over func_call_parts, so it runs after the last part only
HistoryAfterPart(history, parts, is_last) ==
    IF is_last THEN Append(history, ToolMessage(parts)) ELSE history

\* the tool_call message written with the type of a tool_response
ToolCallDocAsResponse(tool_name, tool_args, uid) ==
    [role |-> "tool", user_id |-> uid, type |-> "tool_response",
     content |-> [name |-> tool_name, response |-> tool_args]]

ToolCallDoc(tool_name, tool_args, uid) ==
    [role |-> "tool", user_id |-> uid, type |-> "tool_call",
     content |-> [name |-> tool_name, arguments |-> tool_args]]

ToolResponseDoc(tool_name, result, uid) ==
    [role |-> "tool", user_id |-> uid, type |-> "tool_response",
     content |-> [name |-> tool_name, response |-> result]]

ModelDoc(result) ==
    [role |-> "model", user_id |-> "LLM_Assistant", type |-> "text",
     content |-> result]

\* "iterations": i + 1, without the test of response
IterationsAlwaysNext(idx, resp) == idx + 1

\* "iterations": i + 1 if response else i
Iterations(idx, resp) == IF resp # NoResponse THEN idx + 1 ELSE idx

Metadata(resp, history, idx, steps) ==
    [final_response_object |-> resp, message_history |-> history,
     iterations |-> Iterations(idx, resp), intermediate_steps |-> steps]

\* if thread_id and user_id: (the tool call / tool response log)
HasLogContext(tid, uid) == Truthy(tid) /\ Truthy(uid)

\* "$push": {"messages": message_doc} that overwrites the last message
PushReplacingLast(msgs, doc) ==
    IF msgs = <<>> THEN <<doc>> ELSE [msgs EXCEPT ![Len(msgs)] = doc]

\* update_one({"_id": thread_id}, {"$push": {"messages": message_doc}, ...})
Push(msgs, doc) == Append(msgs, doc)

\* a create_message that returns without having stored the document
CreateMessageUnlogged(doc) == UNCHANGED <<thread, db_failures>>

\* await db_manager.create_message(thread_id, doc) inside try/except: the
\* document is pushed onto the thread, or the call raises and is only logged
CreateMessage(doc) ==
    \/ /\ thread' = Push(thread, doc)
       /\ UNCHANGED db_failures
    \/ /\ db_failures < MaxDbFailures
       /\ db_failures' = db_failures + 1
       /\ UNCHANGED thread

\* a model-service call in progress: the n-th of the run
ModelCall(n) == [op |-> "model", n |-> n]

\* a tool call in progress: for part p of the turn, the request-th request
\* of the run, entered before or after task.cancel()
ToolCall(p, request, after_cancel) ==
    [op |-> "tool", part |-> p, request |-> request,
     after_cancel |-> after_cancel]

\* all remaining calls of the turn are started together (asyncio.gather)
StartedTogether(p, n) == p..n

\* 'for part in func_call_parts: ... await func_to_run(...)': dispatching
\* part p starts the call of part p only
StartedBy(p, n) == {p}

\* the coroutine is at an await that suspends it: asyncio.sleep, a
\* create_message of the message log, or the call of a coroutine tool
AtSuspensionPoint ==
    \/ pc = "sleep"
    \/ pc \in {"log_call", "log_response"} /\ HasLogContext(thread_id, user_id)
    \/ pc = "in_tool" /\ FindTool(func_call_parts[part_idx].name).is_async
    \/ /\ pc = "final"
       /\ Truthy(response.text)
       /\ Truthy(thread_id)
       /\ ~(jsonResults /\ extract_json(response.text).kind = "raise")

\* a requested cancellation is thrown into the coroutine at the await
CancellationPending == cancel_requested /\ AtSuspensionPoint

\* the error logged as an ordinary model message
ErrorDocAsModel(e) ==
    [role |-> "model", user_id |-> "System", type |-> "text",
     content |-> "An error occurred while processing your request: " \o e]

\* the error-role message generate_message_and_update logs
ErrorDoc(e) ==
    [role |-> "error", user_id |-> "System", type |-> "text",
     content |-> "An error occurred while processing your request: " \o e]

(***************************************************************************)
(* The steps of LLM.run.                                                   *)
(***************************************************************************)
\* token_manager.get_token() succeeds and the history is seeded, or it
\* raises and the run returns the authentication error
AcquireToken ==
    /\ UNCHANGED <<cacheVars, auxVars, extVars, in_flight, cancel_requested, task>>
    /\ pc = "start"
    /\ \/ /\ messages' = <<UserMessage(prompt)>>
          /\ pc' = "loop"
          /\ UNCHANGED <<returned, token_error>>
       \/ /\ token_error' = TRUE
          /\ returned' = AuthFailure
          /\ pc' = IF AuthFailure.kind = "raise" THEN "raised" ELSE "returned"
          /\ UNCHANGED messages
    /\ UNCHANGED <<max_calls, jsonResults, delay_ms, thread_id, user_id,
                   intermediate_steps, response, final_result, i, range_next,
                   func_call_parts, part_idx, func_results,
                   tool_result_parts_for_history, thread, model_calls,
                   model_responses, tool_invocations, sleeps, db_failures>>

\* for i in range(max_calls): and the test of the inter-call delay
LoopHead ==
    /\ UNCHANGED <<cacheVars, auxVars, extVars, in_flight, cancel_requested, task>>
    /\ pc = "loop"
    /\ IF RangeHasNext(range_next, max_calls)
       THEN /\ i' = range_next
            /\ range_next' = range_next + 1
            /\ pc' = IF DelayDue(range_next, delay_ms) THEN "sleep" ELSE "call"
       ELSE /\ pc' = "end"
            /\ UNCHANGED <<i, range_next>>
    /\ UNCHANGED <<max_calls, jsonResults, delay_ms, thread_id, user_id,
                   messages, intermediate_steps, response, final_result,
                   func_call_parts, part_idx, func_results,
                   tool_result_parts_for_history, returned, thread,
                   token_error, model_calls, model_responses,
                   tool_invocations, sleeps, db_failures>>

\* await asyncio.sleep(delay_ms / 1000.0)
Sleep ==
    /\ UNCHANGED <<cacheVars, auxVars, extVars, in_flight, cancel_requested, task>>
    /\ pc = "sleep"
    /\ ~CancellationPending
    /\ sleeps' = sleeps + 1
    /\ pc' = "call"
    /\ UNCHANGED <<max_calls, jsonResults, delay_ms, thread_id, user_id,
                   messages, intermediate_steps, response, final_result, i,
                   range_next, func_call_parts, part_idx, func_results,
                   tool_result_parts_for_history, returned, thread,
                   token_error, model_calls, model_responses,
                   tool_invocations, db_failures>>

\* client.models.generate_content(contents=messages, ...) is entered: the
\* request is with the model service
StartModelCall ==
    /\ UNCHANGED <<cacheVars, auxVars, extVars, cancel_requested, task>>
    /\ pc = "call"
    /\ in_flight' = in_flight \cup {ModelCall(Len(model_calls) + 1)}
    /\ pc' = "in_model"
    /\ UNCHANGED <<max_calls, jsonResults, delay_ms, thread_id, user_id,
                   messages, intermediate_steps, response, final_result, i,
                   range_next, func_call_parts, part_idx, func_results,
                   tool_result_parts_for_history, returned, thread,
                   token_error, model_calls, model_responses,
                   tool_invocations, sleeps, db_failures>>

\* response = client.models.generate_content(contents=messages, ...) and the
\* scan of the candidate's parts
CallModel ==
    /\ UNCHANGED <<cacheVars, auxVars, extVars, cancel_requested, task>>
    /\ pc = "in_model"
    /\ in_flight' = in_flight \ {ModelCall(Len(model_calls) + 1)}
    /\ model_calls' = Append(model_calls, messages)
    /\ \/ \* the call raises: nothing in the loop catches it
          /\ returned' = [kind |-> "raise", exception |-> "TransportError"]
          /\ pc' = "raised"
          /\ UNCHANGED <<response, model_responses, final_result,
                         func_call_parts, part_idx,
                         tool_result_parts_for_history>>
       \/ \E r \in ModelResponses(MaxToolCalls - Len(intermediate_steps)) :
            /\ response' = r
            /\ model_responses' = Append(model_responses, r)
            /\ UNCHANGED returned
            /\ IF r.kind = "no_candidates"
               THEN /\ final_result' = ""
                    /\ pc' = AfterNoCandidates
                    /\ UNCHANGED <<func_call_parts, part_idx,
                                   tool_result_parts_for_history>>
               ELSE IF r.kind = "calls"
               THEN /\ func_call_parts' = r.calls
                    /\ part_idx' = 1
                    /\ tool_result_parts_for_history' = <<>>
                    /\ pc' = "log_call"
                    /\ UNCHANGED final_result
               ELSE /\ func_call_parts' = <<>>
                    /\ pc' = "final"
                    /\ UNCHANGED <<final_result, part_idx,
                                   tool_result_parts_for_history>>
    /\ UNCHANGED <<max_calls, jsonResults, delay_ms, thread_id, user_id,
                   messages, intermediate_steps, i, range_next, func_results,
                   thread, token_error, tool_invocations, sleeps,
                   db_failures>>

\* the tool_call message of the current request
LogToolCall ==
    /\ UNCHANGED <<cacheVars, auxVars, extVars, in_flight, cancel_requested, task>>
    /\ pc = "log_call"
    /\ ~CancellationPending
    /\ LET call == func_call_parts[part_idx]
       IN  IF HasLogContext(thread_id, user_id)
           THEN CreateMessage(ToolCallDoc(call.name, call.args, user_id))
           ELSE UNCHANGED <<thread, db_failures>>
    /\ pc' = "dispatch"
    /\ UNCHANGED <<max_calls, jsonResults, delay_ms, thread_id, user_id,
                   messages, intermediate_steps, response, final_result, i,
                   range_next, func_call_parts, part_idx, func_results,
                   tool_result_parts_for_history, returned, token_error,
                   model_calls, model_responses, tool_invocations, sleeps>>

\* the tool of the current request is found and func_to_run(...) is entered
StartTool ==
    /\ UNCHANGED <<cacheVars, auxVars, extVars, cancel_requested, task>>
    /\ pc = "dispatch"
    /\ FindTool(func_call_parts[part_idx].name) # NoTool
    /\ in_flight' = in_flight \cup
          {ToolCall(p, Len(intermediate_steps) + 1 + (p - part_idx),
                    cancel_requested) :
             p \in StartedBy(part_idx, Len(func_call_parts))}
    /\ pc' = "in_tool"
    /\ UNCHANGED <<max_calls, jsonResults, delay_ms, thread_id, user_id,
                   messages, intermediate_steps, response, final_result, i,
                   range_next, func_call_parts, part_idx, func_results,
                   tool_result_parts_for_history, returned, thread,
                   token_error, model_calls, model_responses,
                   tool_invocations, sleeps, db_failures>>

\* find the tool, inject the hidden context, call it, turn an exception or
\* an unknown name into an error text, coerce None
Dispatch ==
    /\ UNCHANGED <<cacheVars, auxVars, extVars, cancel_requested, task>>
    /\ \/ pc = "in_tool"
       \/ pc = "dispatch" /\ FindTool(func_call_parts[part_idx].name) = NoTool
    /\ ~CancellationPending
    /\ in_flight' = {f \in in_flight : ~(f.op = "tool" /\ f.part = part_idx)}
    /\ LET call == func_call_parts[part_idx]
           func_to_run == FindTool(call.name)
           tool_args == InjectContext(func_to_run, call.args, thread_id, user_id)
       IN  IF func_to_run # NoTool
           THEN \E outcome \in CallOutcomes(func_to_run, tool_args) :
                  /\ func_results' = CoerceNone(CallResult(call.name, outcome))
                  /\ tool_invocations' =
                        Append(tool_invocations,
                               [name |-> call.name, args |-> tool_args,
                                bound |-> DOMAIN tool_args = func_to_run.params,
                                outcome |-> outcome,
                                request |-> Len(intermediate_steps) + 1])
           ELSE /\ func_results' = CoerceNone(UnknownToolText(call.name))
                /\ UNCHANGED tool_invocations
    /\ pc' = "log_response"
    /\ UNCHANGED <<max_calls, jsonResults, delay_ms, thread_id, user_id,
                   messages, intermediate_steps, response, final_result, i,
                   range_next, func_call_parts, part_idx,
                   tool_result_parts_for_history, returned, thread,
                   token_error, model_calls, model_responses, sleeps,
                   db_failures>>

\* the tool_response message, the step trace, the part for the history and,
\* after the last request of the turn, the one 'tool' message; then continue
LogToolResponse ==
    /\ UNCHANGED <<cacheVars, auxVars, extVars, in_flight, cancel_requested, task>>
    /\ pc = "log_response"
    /\ ~CancellationPending
    /\ LET call == func_call_parts[part_idx]
           parts == Append(tool_result_parts_for_history,
                           FunctionResponsePart(call.name, func_results))
       IN  /\ IF HasLogContext(thread_id, user_id)
              THEN CreateMessage(ToolResponseDoc(call.name, func_results, user_id))
              ELSE UNCHANGED <<thread, db_failures>>
           /\ intermediate_steps' = Append(intermediate_steps, <<call, func_results>>)
           /\ tool_result_parts_for_history' = parts
           /\ IF part_idx < Len(func_call_parts)
              THEN /\ part_idx' = part_idx + 1
                   /\ pc' = "log_call"
              ELSE /\ pc' = "loop"
                   /\ UNCHANGED part_idx
           /\ messages' = HistoryAfterPart(messages, parts,
                                           part_idx = Len(func_call_parts))
    /\ UNCHANGED <<max_calls, jsonResults, delay_ms, thread_id, user_id,
                   response, final_result, i, range_next, func_call_parts,
                   func_results, returned, token_error, model_calls,
                   model_responses, tool_invocations, sleeps>>

\* no tool call: final_text = response.text, the optional extract_json, the
\* 'model' message of the thread, break
FinalAnswer ==
    /\ UNCHANGED <<cacheVars, auxVars, extVars, in_flight, cancel_requested, task>>
    /\ pc = "final"
    /\ ~CancellationPending
    /\ LET final_text == response.text
       IN  IF Truthy(final_text)
           THEN IF jsonResults /\ extract_json(final_text).kind = "raise"
                THEN \* ValueError of extract_json leaves the run
                     /\ returned' = [kind |-> "raise", exception |-> "ValueError"]
                     /\ pc' = "raised"
                     /\ UNCHANGED <<final_result, thread, db_failures>>
                ELSE LET result == IF jsonResults
                                   THEN extract_json(final_text).value
                                   ELSE final_text
                     IN  /\ final_result' = result
                         /\ IF Truthy(thread_id)
                            THEN CreateMessage(ModelDoc(result))
                            ELSE UNCHANGED <<thread, db_failures>>
                         /\ pc' = "end"
                         /\ UNCHANGED returned
           ELSE /\ final_result' = ""
                /\ pc' = "end"
                /\ UNCHANGED <<returned, thread, db_failures>>
    /\ UNCHANGED <<max_calls, jsonResults, delay_ms, thread_id, user_id,
                   messages, intermediate_steps, response, i, range_next,
                   func_call_parts, part_idx, func_results,
                   tool_result_parts_for_history, token_error, model_calls,
                   model_responses, tool_invocations, sleeps>>

\* the metadata, the default of final_result, return
Finish ==
    /\ UNCHANGED <<cacheVars, auxVars, extVars, in_flight, cancel_requested, task>>
    /\ pc = "end"
    /\ returned' =
          [kind |-> "return",
           final_result |-> IF final_result = None THEN "" ELSE final_result,
           metadata |-> Metadata(response, messages, i, intermediate_steps)]
    /\ pc' = "returned"
    /\ UNCHANGED <<max_calls, jsonResults, delay_ms, thread_id, user_id,
                   messages, intermediate_steps, response, final_result, i,
                   range_next, func_call_parts, part_idx, func_results,
                   tool_result_parts_for_history, thread, token_error,
                   model_calls, model_responses, tool_invocations, sleeps,
                   db_failures>>

\* cancel_chat_generation: task.cancel() on RUNNING_TASKS.get(thread_id).
\* The endpoint is a plain 'def', so it runs in a worker thread and may
\* call cancel() at any point of the run
CancelChatGeneration ==
    /\ UNCHANGED <<cacheVars, auxVars, extVars, in_flight, task>>
    /\ task = "running"
    /\ Truthy(thread_id)
    /\ pc \notin {"returned", "raised", "cancelled"}
    /\ ~cancel_requested
    /\ cancel_requested' = TRUE
    /\ UNCHANGED <<max_calls, jsonResults, delay_ms, thread_id, user_id, pc,
                   messages, intermediate_steps, response, final_result, i,
                   range_next, func_call_parts, part_idx, func_results,
                   tool_result_parts_for_history, returned, thread,
                   token_error, model_calls, model_responses,
                   tool_invocations, sleeps, db_failures>>

\* CancelledError is raised at the await the coroutine is suspended at; it
\* is not an Exception, so no except clause of the run catches it.  A
\* message that was being logged may still reach the thread
DeliverCancellation ==
    /\ UNCHANGED <<cacheVars, auxVars, extVars, cancel_requested, task>>
    /\ CancellationPending
    /\ \/ UNCHANGED thread
       \/ /\ pc \in {"log_call", "log_response", "final"}
          /\ thread' =
                Append(thread,
                       IF pc = "log_call"
                       THEN ToolCallDoc(func_call_parts[part_idx].name,
                                        func_call_parts[part_idx].args, user_id)
                       ELSE IF pc = "log_response"
                       THEN ToolResponseDoc(func_call_parts[part_idx].name,
                                            func_results, user_id)
                       ELSE ModelDoc(IF jsonResults
                                     THEN extract_json(response.text).value
                                     ELSE response.text))
    /\ in_flight' = {}
    /\ returned' = [kind |-> "raise", exception |-> "CancelledError"]
    /\ pc' = "cancelled"
    /\ UNCHANGED <<max_calls, jsonResults, delay_ms, thread_id, user_id,
                   messages, intermediate_steps, response, final_result, i,
                   range_next, func_call_parts, part_idx, func_results,
                   tool_result_parts_for_history, token_error, model_calls,
                   model_responses, tool_invocations, sleeps, db_failures>>

(***************************************************************************)
(* Agent.run, the caller of LLM.run for a chat message.                    *)
(***************************************************************************)
\* self.llm.run(prompt=prompt, delay_ms=1000 * 10, thread_id=..., user_id=...,
\* tools=[...]): no jsonResults, and the default call budget, for which any
\* positive max_calls of the model stands
StartedByAgent == ~jsonResults /\ delay_ms = 10000 /\ max_calls > 0

ApologyText ==
    "I'm sorry, but an unexpected error occurred while processing your request. Please try again."

\* last_tool_output: the second element of the last step of
\* metadata['intermediate_steps'], None without the key or without a step
LastToolOutput(metadata) ==
    IF "intermediate_steps" \in DOMAIN metadata
       /\ metadata["intermediate_steps"] # <<>>
    THEN LET steps == metadata["intermediate_steps"]
         IN  steps[Len(steps)][2]
    ELSE None

\* a caller without the fallback to the last tool output
AgentYieldApologyOnly(ret) ==
    IF Truthy(ret.final_result) THEN ret.final_result ELSE ApologyText

\* what the generator yields once llm.run has returned (response_text,
\* metadata): the text, else the last tool output if it is a non-empty
\* string, else the apology
AgentYield(ret) ==
    IF Truthy(ret.final_result)
    THEN ret.final_result
    ELSE IF Truthy(LastToolOutput(ret.metadata))
         THEN LastToolOutput(ret.metadata)
         ELSE ApologyText

\* Agent.run after 'await self.llm.run(...)' has returned, lines 109-156
AgentRun ==
    /\ pc = "returned"
    /\ StartedByAgent
    /\ task = "running"
    /\ yielded = <<>>
    /\ yielded' = Append(yielded, AgentYield(returned))
    /\ UNCHANGED <<runVars, cacheVars, auxVars, taskVars, sqlVars, sharedVars,
                   updateVars>>

\* generate_message_and_update, lines 52-80: the run of the thread has
\* ended.  CancelledError is re-raised; any other exception is turned into
\* an error-role message of the thread (a failure to store it is printed)
GenerateMessageAndUpdateEnds ==
    /\ UNCHANGED <<cacheVars, auxVars, extVars, in_flight, cancel_requested>>
    /\ task = "running"
    /\ Truthy(thread_id)
    /\ pc \in {"returned", "raised", "cancelled"}
    /\ pc = "returned" /\ StartedByAgent => yielded # <<>>
    /\ IF pc = "raised"
       THEN /\ CreateMessage(ErrorDoc(returned.exception))
            /\ task' = "failed"
       ELSE /\ task' = IF pc = "cancelled" THEN "cancelled" ELSE "finished"
            /\ UNCHANGED <<thread, db_failures>>
    /\ UNCHANGED <<max_calls, jsonResults, delay_ms, thread_id, user_id, pc,
                   messages, intermediate_steps, response, final_result, i,
                   range_next, func_call_parts, part_idx, func_results,
                   tool_result_parts_for_history, returned, token_error,
                   model_calls, model_responses, tool_invocations, sleeps>>

\* a message of another run of the same thread: a second message posted to
\* the thread starts a run while this one is executing
OtherRunDoc ==
    [role |-> "model", user_id |-> "LLM_Assistant", type |-> "text",
     content |-> "answer of another run"]

\* the cache-hit message of sql_explorer_tool, lines 56-64
CacheHitDoc(uid) ==
    [role |-> "system", user_id |-> uid, type |-> "cache_hit",
     content |-> "Using cached database report (valid for 6 days). No new exploration performed."]

\* what sql_explorer_tool pushes onto the thread it is given: the cache-hit
\* message, or, through its nested llm.run(thread_id=__thread_id, ...), a
\* message of that run
ExplorerDocs(uid) ==
    {CacheHitDoc(uid), ModelDoc("database report"),
     ToolCallDoc("execute_sql_tool", EmptyDict, uid)}

InitShared == pushed = [other |-> 0, tool_request |-> 0]

\* create_message of another run reaches the thread
OtherRunPush ==
    /\ Truthy(thread_id)
    /\ task = "running"
    /\ pushed.other < MaxOther
    /\ thread' = Push(thread, OtherRunDoc)
    /\ pushed' = [pushed EXCEPT !.other = @ + 1]
    /\ UNCHANGED <<cacheVars, auxVars, taskVars, sqlVars, updateVars, agentVars, in_flight,
                   cancel_requested, task>>
    /\ UNCHANGED <<max_calls, jsonResults, delay_ms, thread_id, user_id, pc,
                   messages, intermediate_steps, response, final_result, i,
                   range_next, func_call_parts, part_idx, func_results,
                   tool_result_parts_for_history, returned, token_error,
                   model_calls, model_responses, tool_invocations, sleeps,
                   db_failures>>

\* sql_explorer_tool, called by the run with the thread id the dispatcher
\* injected, pushes a message onto the thread before it returns
ExplorerPush ==
    /\ pc = "in_tool"
    /\ func_call_parts[part_idx].name = "sql_explorer_tool"
    /\ Truthy(thread_id)
    /\ pushed.tool_request < Len(intermediate_steps) + 1
    /\ LET tool_args == InjectContext(SqlExplorerTool,
                                      func_call_parts[part_idx].args,
                                      thread_id, user_id)
       IN  /\ DOMAIN tool_args = SqlExplorerTool.params
           /\ \E doc \in ExplorerDocs(tool_args["__user_id"]) :
                 thread' = Push(thread, doc)
    /\ pushed' = [pushed EXCEPT !.tool_request = Len(intermediate_steps) + 1]
    /\ UNCHANGED <<cacheVars, auxVars, taskVars, sqlVars, updateVars, agentVars, in_flight,
                   cancel_requested, task>>
    /\ UNCHANGED <<max_calls, jsonResults, delay_ms, thread_id, user_id, pc,
                   messages, intermediate_steps, response, final_result, i,
                   range_next, func_call_parts, part_idx, func_results,
                   tool_result_parts_for_history, returned, token_error,
                   model_calls, model_responses, tool_invocations, sleeps,
                   db_failures>>

(***************************************************************************)
(* The report cache of MongoManager.                                       *)
(***************************************************************************)
\* the runs that call cache_sql_report, and one that calls get_cached_sql_report
Writers == 1..NumWriters

Reader == 0

\* the run whose sql_explorer_tool calls are followed step by step
Explorer == -1

Callers == Writers \cup {Reader, Explorer}

DbPaths == {"bank.sqlite", "postgresql|u@h:5432/db"}

\* the report a caller writes
ReportOf(c) == "report of run " \o ToString(c)

Idle == [op |-> "idle"]

NoWrite == [report_content |-> None, cached_at |-> -1, upserted |-> FALSE]

\* create_index("db_path") without unique=True
NoUniqueDbPathIndex == FALSE

\* create_index("db_path", unique=True), called at startup by the lifespan
UniqueDbPathIndex == TRUE

\* the positions of the documents matching {"db_path": db_path}
Matching(coll, db_path) == {n \in 1..Len(coll) : coll[n].db_path = db_path}

First(S) == CHOOSE n \in S : \A m \in S : n <= m

\* "$set": {"report_content": ..., "cached_at": ...} on the first match
SetFields(coll, db_path, report_content, cached_at) ==
    [coll EXCEPT ![First(Matching(coll, db_path))] =
        [db_path |-> db_path, report_content |-> report_content,
         cached_at |-> cached_at]]

\* the insert of an upsert that matched nothing
InsertDoc(coll, db_path, report_content, cached_at) ==
    Append(coll, [db_path |-> db_path, report_content |-> report_content,
                  cached_at |-> cached_at])

\* find_one({"db_path": db_path}): the first match or None
FindOne(coll, db_path) ==
    IF Matching(coll, db_path) = {} THEN [found |-> FALSE]
    ELSE [found |-> TRUE, doc |-> coll[First(Matching(coll, db_path))]]

\* the age test with a strict comparison: cached_time > expiry_date
CacheValidStrict(cached_time, at, max_age_days) == cached_time > at - max_age_days

\* expiry_date = now - timedelta(days=max_age_days); cached_time >= expiry_date
CacheValid(cached_time, at, max_age_days) == cached_time >= at - max_age_days

InitCache ==
    /\ sql_reports_cache = <<>>
    /\ now = 0
    /\ cache_call = [c \in Callers |-> Idle]
    /\ last_write = [k \in DbPaths |-> NoWrite]

\* a cache operation that lets the storage error out to its caller
Raised == [op |-> "raised"]

\* cache_sql_report, except Exception: the error is logged and the call
\* returns like a successful one
WriteFailed == Idle

\* get_cached_sql_report without its except clause
ReadFailedRaises(r) == Raised

\* get_cached_sql_report, except Exception: the error is logged, return None
ReadFailed(r) ==
    [op |-> "read_done", db_path |-> r.db_path,
     max_age_days |-> r.max_age_days, found |-> FALSE, failed |-> TRUE,
     result |-> None]

\* time passes
Tick ==
    /\ now < MaxClock
    /\ now' = now + 1
    /\ UNCHANGED <<sql_reports_cache, cache_call, last_write, runVars, auxVars, extVars>>

\* cache_sql_report(db_path, report_content): the update document is built
\* with cached_at = now and update_one(..., upsert=True) is sent
CacheWriteStart(c) ==
    /\ cache_call[c].op = "idle"
    /\ \E db_path \in DbPaths :
         cache_call' = [cache_call EXCEPT ![c] =
            [op |-> "update_one", db_path |-> db_path,
             report_content |-> ReportOf(c), cached_at |-> now]]
    /\ UNCHANGED <<sql_reports_cache, now, last_write, runVars, auxVars, extVars>>

\* the store runs the query of the upsert: a matching document is updated
\* in place; with no match the store goes on to insert
UpsertMatch(c) ==
    /\ cache_call[c].op = "update_one"
    /\ LET w == cache_call[c]
       IN  IF Matching(sql_reports_cache, w.db_path) # {}
           THEN /\ sql_reports_cache' =
                      SetFields(sql_reports_cache, w.db_path,
                                w.report_content, w.cached_at)
                /\ last_write' = [last_write EXCEPT ![w.db_path] =
                      [report_content |-> w.report_content,
                       cached_at |-> w.cached_at, upserted |-> FALSE]]
                /\ cache_call' = [cache_call EXCEPT ![c] = Idle]
           ELSE /\ cache_call' = [cache_call EXCEPT ![c].op = "insert"]
                /\ UNCHANGED <<sql_reports_cache, last_write>>
    /\ UNCHANGED <<now, runVars, auxVars, extVars>>

\* the insert of the upsert: under the unique index a document that another
\* upsert inserted meanwhile makes it a duplicate key, which the store
\* retries as an update or reports as an error (caught and logged by
\* cache_sql_report: the write is dropped)
UpsertInsert(c) ==
    /\ cache_call[c].op = "insert"
    /\ LET w == cache_call[c]
           written(upserted) ==
               [last_write EXCEPT ![w.db_path] =
                   [report_content |-> w.report_content,
                    cached_at |-> w.cached_at, upserted |-> upserted]]
       IN  IF UniqueDbPathIndex /\ Matching(sql_reports_cache, w.db_path) # {}
           THEN \/ /\ sql_reports_cache' =
                         SetFields(sql_reports_cache, w.db_path,
                                   w.report_content, w.cached_at)
                   /\ last_write' = written(FALSE)
                \/ UNCHANGED <<sql_reports_cache, last_write>>
           ELSE /\ sql_reports_cache' =
                      InsertDoc(sql_reports_cache, w.db_path,
                                w.report_content, w.cached_at)
                /\ last_write' = written(TRUE)
    /\ cache_call' = [cache_call EXCEPT ![c] = Idle]
    /\ UNCHANGED <<now, runVars, auxVars, extVars>>

\* update_one raises (the store is unreachable): except Exception logs it
CacheWriteFails(c) ==
    /\ cache_call[c].op \in {"update_one", "insert"}
    /\ cache_call' = [cache_call EXCEPT ![c] = WriteFailed]
    /\ UNCHANGED <<sql_reports_cache, now, last_write, runVars, auxVars, extVars>>

\* get_cached_sql_report(db_path, max_age_days): find_one is sent
CacheReadStart(c) ==
    /\ cache_call[c].op \in {"idle", "read_done"}
    /\ \E db_path \in DbPaths, max_age_days \in 1..MaxAge :
         cache_call' = [cache_call EXCEPT ![c] =
            [op |-> "find_one", db_path |-> db_path,
             max_age_days |-> max_age_days]]
    /\ UNCHANGED <<sql_reports_cache, now, last_write, runVars, auxVars, extVars>>

\* find_one returns: no document (return None), or the document
CacheReadFind(c) ==
    /\ cache_call[c].op = "find_one"
    /\ LET r == cache_call[c]
           cached_doc == FindOne(sql_reports_cache, r.db_path)
       IN  cache_call' = [cache_call EXCEPT ![c] =
              IF cached_doc.found
              THEN [op |-> "check", db_path |-> r.db_path,
                    max_age_days |-> r.max_age_days, cached_doc |-> cached_doc.doc]
              ELSE [op |-> "read_done", db_path |-> r.db_path,
                    max_age_days |-> r.max_age_days, found |-> FALSE,
                    failed |-> FALSE, result |-> None]]
    /\ UNCHANGED <<sql_reports_cache, now, last_write, runVars, auxVars, extVars>>

\* find_one raises: except Exception returns None
CacheReadFails(c) ==
    /\ cache_call[c].op = "find_one"
    /\ cache_call' = [cache_call EXCEPT ![c] = ReadFailed(cache_call[c])]
    /\ UNCHANGED <<sql_reports_cache, now, last_write, runVars, auxVars, extVars>>

\* the age test of the document against the clock, and the return
CacheReadCheck(c) ==
    /\ cache_call[c].op = "check"
    /\ LET r == cache_call[c]
           cached_time == r.cached_doc.cached_at
       IN  cache_call' = [cache_call EXCEPT ![c] =
              [op |-> "read_done", db_path |-> r.db_path,
               max_age_days |-> r.max_age_days, found |-> TRUE,
               failed |-> FALSE,
               cached_doc |-> r.cached_doc, read_at |-> now,
               result |-> IF CacheValid(cached_time, now, r.max_age_days)
                          THEN r.cached_doc.report_content
                          ELSE None]]
    /\ UNCHANGED <<sql_reports_cache, now, last_write, runVars, auxVars, extVars>>

(***************************************************************************)
(* _get_cache_key_from_config of sql_explorer_tool.py.  A connection       *)
(* configuration is a dict from field names to strings; the fields the     *)
(* caller left out are not in its domain.                                  *)
(***************************************************************************)
Absent == "<absent>"

\* the values each field of a configuration is drawn from
ConfigFieldValues ==
    [db_type  : {Absent, "sqlite", "postgresql", "oracle", "mysql"},
     db_path  : {Absent, "bank.sqlite"},
     host     : {Absent, "h"},
     dsn      : {Absent, "d"},
     port     : {"5432"},
     user     : {Absent, "u"},
     dbname   : {"db"},
     password : {Absent, "pw1", "pw2"}]

\* the dict that holds the fields that are present
AsDict(r) == [k \in {f \in DOMAIN r : r[f] # Absent} |-> r[k]]

Configs == {AsDict(r) : r \in ConfigFieldValues}

\* config.get(key, default)
Get(config, key, default) ==
    IF key \in DOMAIN config THEN config[key] ELSE default

\* the keys of a configuration in sorted order (sort_keys=True)
SortedKeys ==
    <<"db_path", "db_type", "dbname", "dsn", "host", "password", "port", "user">>

RECURSIVE JsonItems(_, _, _)
\* the "key": "value" items of json.dumps, separated by ", "
JsonItems(config, n, first) ==
    IF n > Len(SortedKeys) THEN ""
    ELSE IF SortedKeys[n] \notin DOMAIN config
         THEN JsonItems(config, n + 1, first)
         ELSE (IF first THEN "" ELSE ", ")
              \o "\"" \o SortedKeys[n] \o "\": \"" \o config[SortedKeys[n]] \o "\""
              \o JsonItems(config, n + 1, FALSE)

\* json.dumps(config, sort_keys=True)
JsonDumps(config) == "{" \o JsonItems(config, 1, TRUE) \o "}"

\* _get_cache_key_from_config(config)
get_cache_key_from_config(config) ==
    LET db_type == Get(config, "db_type", None)
    IN  IF db_type = "sqlite"
        THEN Get(config, "db_path", "sqlite_unknown")
        ELSE IF db_type \in {"postgresql", "oracle"}
        THEN LET host == Get(config, "host", Get(config, "dsn", "unknown_host"))
                 port == Get(config, "port", "default_port")
                 user == Get(config, "user", "unknown_user")
                 db   == Get(config, "dbname", "unknown_db")
             IN  db_type \o "|" \o user \o "@" \o host \o ":" \o port \o "/" \o db
        ELSE JsonDumps(config)

InitKey ==
    /\ key_config = EmptyDict
    /\ cache_key = None

\* cache_key = _get_cache_key_from_config(connection_config)
GetCacheKey ==
    /\ \E config \in Configs :
          /\ key_config' = config
          /\ cache_key' = get_cache_key_from_config(config)
    /\ UNCHANGED <<runVars, extVars, cacheVars, explorerVars, tokenVars>>

(***************************************************************************)
(* sql_explorer_tool of sql_explorer_tool.py: check the cache, on a miss   *)
(* run the exploration with a nested LLM.run and cache its report.         *)
(***************************************************************************)
CACHE_EXPIRATION_DAYS == 6

\* the connection configurations the tool is called with
ExplorerConfigs ==
    {[db_type |-> "sqlite", db_path |-> "bank.sqlite"],
     [db_type |-> "postgresql", host |-> "h", port |-> "5432", user |-> "u",
      dbname |-> "db", password |-> "pw1"]}

\* what the nested llm.run(prompt, max_calls=100, tools=[execute_sql_tool])
\* does: it returns a report, an empty text or the authentication error
\* text, or a model-service call of it raises
ExplorerRunOutcomes ==
    {[kind |-> "return", value |-> ReportOf(Explorer)],
     [kind |-> "return", value |-> ""],
     [kind |-> "return", value |-> AuthErrorText],
     [kind |-> "raise", exception |-> "TransportError"]}

ExplorerIdle ==
    [pc |-> "idle", cache_key |-> None, cached_report |-> None,
     read_failed |-> FALSE, result_text |-> None, cache_hit_logged |-> FALSE,
     returned |-> NotReturned]

InitExplorer == explorer = ExplorerIdle

\* a tool that ignores what the cache returned
AfterCacheReadAlwaysMiss(cached_report) == "generate"

\* if cached_report: ... return cached_report; otherwise the tool goes on
\* to generate a new report
AfterCacheRead(cached_report) ==
    IF Truthy(cached_report) THEN "log_cache_hit" ELSE "generate"

\* the cache duration passes between two calls of the tool
ExpirationPasses ==
    /\ now < MaxClock
    /\ now' = now + CACHE_EXPIRATION_DAYS
    /\ UNCHANGED <<sql_reports_cache, cache_call, last_write, runVars,
                   auxVars, extVars>>

\* lines 40-48: the key is derived and get_cached_sql_report is awaited
ExplorerCheckCache ==
    /\ explorer.pc \in {"idle", "returned", "raised"}
    /\ \E connection_config \in ExplorerConfigs :
         LET key == get_cache_key_from_config(connection_config)
         IN  /\ explorer' = [ExplorerIdle EXCEPT !.pc = "get_cached",
                                                  !.cache_key = key]
             /\ cache_call' = [cache_call EXCEPT ![Explorer] =
                   [op |-> "find_one", db_path |-> key,
                    max_age_days |-> CACHE_EXPIRATION_DAYS]]
    /\ UNCHANGED <<sql_reports_cache, now, last_write, runVars, extVars, keyVars, tokenVars>>

\* lines 45-50 and 76-78: get_cached_sql_report has returned (or raised, which
\* the except clause of the tool turns into a miss)
ExplorerAfterRead ==
    /\ explorer.pc = "get_cached"
    /\ cache_call[Explorer].op \in {"read_done", "raised"}
    /\ LET r == cache_call[Explorer]
           cached_report == IF r.op = "raised" THEN None ELSE r.result
       IN  explorer' = [explorer EXCEPT
              !.cached_report = cached_report,
              !.read_failed = IF r.op = "raised" THEN TRUE ELSE r.failed,
              !.pc = AfterCacheRead(cached_report)]
    /\ cache_call' = [cache_call EXCEPT ![Explorer] = Idle]
    /\ UNCHANGED <<sql_reports_cache, now, last_write, runVars, extVars, keyVars, tokenVars>>

\* lines 56-74: the cache-hit message is logged to the thread (a failure of
\* create_message is caught) and the cached report is returned
ExplorerLogCacheHit ==
    /\ explorer.pc = "log_cache_hit"
    /\ \E logged \in BOOLEAN :
         explorer' = [explorer EXCEPT
            !.cache_hit_logged = logged,
            !.pc = "returned",
            !.returned = [kind |-> "return", value |-> explorer.cached_report]]
    /\ UNCHANGED <<cacheVars, runVars, extVars, keyVars, tokenVars>>

\* lines 86-171: the nested run; a non-empty result is handed to
\* cache_sql_report, whose update document is stamped with the clock
ExplorerGenerate ==
    /\ explorer.pc = "generate"
    /\ \E outcome \in ExplorerRunOutcomes :
         IF outcome.kind = "raise"
         THEN /\ explorer' = [explorer EXCEPT
                    !.pc = "raised",
                    !.returned = [kind |-> "raise", exception |-> outcome.exception,
                                  raised_by |-> "llm.run"]]
              /\ UNCHANGED cache_call
         ELSE IF Truthy(outcome.value)
         THEN /\ explorer' = [explorer EXCEPT !.pc = "cache_write",
                                               !.result_text = outcome.value]
              /\ cache_call' = [cache_call EXCEPT ![Explorer] =
                    [op |-> "update_one", db_path |-> explorer.cache_key,
                     report_content |-> outcome.value, cached_at |-> now]]
         ELSE /\ explorer' = [explorer EXCEPT !.pc = "return",
                                               !.result_text = outcome.value]
              /\ UNCHANGED cache_call
    /\ UNCHANGED <<sql_reports_cache, now, last_write, runVars, extVars, keyVars, tokenVars>>

\* lines 165-182: cache_sql_report has returned (or raised, which the except
\* clause of the tool logs), or was skipped; the result is returned
ExplorerReturn ==
    /\ \/ explorer.pc = "return"
       \/ /\ explorer.pc = "cache_write"
          /\ cache_call[Explorer].op \in {"idle", "raised"}
    /\ explorer' = [explorer EXCEPT
          !.pc = "returned",
          !.returned = [kind |-> "return", value |-> explorer.result_text]]
    /\ cache_call' = [cache_call EXCEPT ![Explorer] = Idle]
    /\ UNCHANGED <<sql_reports_cache, now, last_write, runVars, extVars, keyVars, tokenVars>>

(***************************************************************************)
(* TokenManager of token_manager.py.                                       *)
(***************************************************************************)
\* the runs that call token_manager.get_token()
TokenCallers == {"run_a", "run_b"}

\* ttl=480 seconds
TTL == 480

\* the seconds that have passed after a number of ticks of the timer
Seconds(ticks) == ticks * 240

\* the n-th token of the endpoint
Tok(n) == "jwt-" \o ToString(n)

\* a response body: the token with the whitespace around it
Body(lead, core, trail) == [lead |-> lead, core |-> core, trail |-> trail]

\* response.content.decode("utf-8").strip()
Strip(body) == body.core

\* the status codes the endpoint answers with (requests has followed the
\* redirects it can follow; a 300 carries no Location)
Statuses == {200, 300, 404, 503}

\* the bodies the endpoint answers with when it issues its n-th token
Bodies(n) ==
    {Body("", Tok(n), ""), Body(" ", Tok(n), "\n"), Body(" ", "", "\n"),
     Body("", "", "")}

\* response.raise_for_status(): HTTPError for 4xx and 5xx
RaisesForStatus(status) == 400 <= status /\ status < 600

\* the static key is never used
UsesStaticKeyNever(key) == FALSE

\* 'if self.static_api_key'
UsesStaticKey(key) == Truthy(key)

\* the items of the cache that may still be read at time t: an item lives
\* for ttl seconds; at an age of exactly ttl the releases of cachetools
\* differ (expired from 5.0 on, still readable before)
Live(item, t) == Seconds(t - item.stored_at) < TTL

AtBoundary(item, t) == Seconds(t - item.stored_at) = TTL

\* an item is never served from the cache
LookupOutcomesNoCache(cache, key, t) == {None}

\* self.cache.get(key): the value of a live item, else None
LookupOutcomes(cache, key, t) ==
    LET items == {it \in cache : it.key = key}
    IN  {it.value : it \in {x \in items : Live(x, t) \/ AtBoundary(x, t)}}
        \cup (IF \E it \in items : Live(it, t) THEN {} ELSE {None})

\* a store that keeps the items it finds
SetItemKeepOld(cache, key, value, t) ==
    cache \cup {[key |-> key, value |-> value, stored_at |-> t]}

\* self.cache[key] = value with maxsize=1: the item of the key is replaced,
\* and any other item is evicted to make room
SetItem(cache, key, value, t) ==
    {[key |-> key, value |-> value, stored_at |-> t]}

TokenIdle ==
    [pc |-> "idle", looked_up |-> FALSE, seen |-> {}, at |-> 0,
     requested |-> FALSE, response |-> None, token |-> None,
     stored |-> FALSE, result |-> NotReturned]

InitToken ==
    /\ static_api_key \in {None, "", "static-key"}
    /\ client_id \in {None, "llm-id"}
    /\ token_url \in {None, "https://token/"}
    /\ jwt_cache = {}
    /\ timer = 0
    /\ token_call = [c \in TokenCallers |-> TokenIdle]
    /\ issued = 0

\* no get_token() call is made
TokenUnused ==
    /\ static_api_key = None
    /\ client_id = None
    /\ token_url = None
    /\ InitToken

\* the timer of the cache advances
TimerTick ==
    /\ timer < MaxTimer
    /\ timer' = timer + 1
    /\ UNCHANGED <<static_api_key, client_id, token_url, jwt_cache, token_call,
                   issued, runVars, extVars, cacheVars, keyVars, explorerVars>>

\* get_token(), lines 71-80
GetToken(c) ==
    /\ token_call[c].pc \in {"idle", "done"}
    /\ token_call' = [token_call EXCEPT ![c] =
          IF UsesStaticKey(static_api_key)
          THEN [TokenIdle EXCEPT !.pc = "done", !.at = timer,
                   !.result = [kind |-> "return", value |-> static_api_key]]
          ELSE IF ~Truthy(client_id) \/ ~Truthy(token_url)
          THEN [TokenIdle EXCEPT !.pc = "done", !.at = timer,
                   !.result = [kind |-> "raise", exception |-> "EnvironmentError"]]
          ELSE [TokenIdle EXCEPT !.pc = "lookup", !.at = timer]]
    /\ UNCHANGED <<static_api_key, client_id, token_url, jwt_cache, timer,
                   issued, runVars, extVars, cacheVars, keyVars, explorerVars>>

\* _get_jwt_token(), lines 88-94: the cache lookup
CacheLookup(c) ==
    /\ token_call[c].pc = "lookup"
    /\ \E token \in LookupOutcomes(jwt_cache, "jwt_token", timer) :
         token_call' = [token_call EXCEPT ![c] =
            IF Truthy(token)
            THEN [@ EXCEPT !.pc = "done", !.looked_up = TRUE,
                     !.seen = jwt_cache, !.at = timer,
                     !.result = [kind |-> "return", value |-> token]]
            ELSE [@ EXCEPT !.pc = "request", !.looked_up = TRUE,
                     !.seen = jwt_cache, !.at = timer]]
    /\ UNCHANGED <<static_api_key, client_id, token_url, jwt_cache, timer,
                   issued, runVars, extVars, cacheVars, keyVars, explorerVars>>

\* _get_jwt_token(), lines 100-123 and 130-132: the request to the token
\* endpoint, the status check and the empty-body check
PostRequest(c) ==
    /\ token_call[c].pc = "request"
    /\ \/ \* requests.post raises a RequestException (connection, timeout)
          /\ token_call' = [token_call EXCEPT ![c] =
                [@ EXCEPT !.pc = "done", !.requested = TRUE,
                    !.response = [kind |-> "network_error"],
                    !.result = [kind |-> "raise",
                                exception |-> "RequestException"]]]
          /\ UNCHANGED issued
       \/ /\ issued < MaxIssued
          /\ \E status \in Statuses, body \in Bodies(issued + 1) :
               LET answer == [kind |-> "response", status |-> status,
                                body |-> body]
                   token == Strip(body)
               IN  /\ token_call' = [token_call EXCEPT ![c] =
                         IF RaisesForStatus(status)
                         THEN [@ EXCEPT !.pc = "done", !.requested = TRUE,
                                  !.response = answer,
                                  !.result = [kind |-> "raise",
                                              exception |-> "HTTPError"]]
                         ELSE IF token = ""
                         THEN [@ EXCEPT !.pc = "done", !.requested = TRUE,
                                  !.response = answer,
                                  !.result = [kind |-> "raise",
                                              exception |-> "ValueError"]]
                         ELSE [@ EXCEPT !.pc = "store", !.requested = TRUE,
                                  !.response = answer, !.token = token]]
                   /\ issued' = issued + 1
    /\ UNCHANGED <<static_api_key, client_id, token_url, jwt_cache, timer,
                   runVars, extVars, cacheVars, keyVars, explorerVars>>

\* _get_jwt_token(), lines 126-128: the token is stored and returned
StoreToken(c) ==
    /\ token_call[c].pc = "store"
    /\ jwt_cache' = SetItem(jwt_cache, "jwt_token", token_call[c].token, timer)
    /\ token_call' = [token_call EXCEPT ![c] =
          [@ EXCEPT !.pc = "done", !.stored = TRUE,
              !.result = [kind |-> "return", value |-> token_call[c].token]]]
    /\ UNCHANGED <<static_api_key, client_id, token_url, timer, issued,
                   runVars, extVars, cacheVars, keyVars, explorerVars>>

(***************************************************************************)
(* The chat endpoints of main.py and the RUNNING_TASKS registry.           *)
(***************************************************************************)
ThreadIds == {"t-a", "t-b"}

NoTask == 0

\* THREAD_STATUS.get(thread_id) of a thread without an entry
NoStatus == [present |-> FALSE, waitingForResponse |-> FALSE]

\* {"waitingForResponse": w, "messages": []}
Status(w) == [present |-> TRUE, waitingForResponse |-> w]

InitTasks ==
    /\ thread_state = [t \in ThreadIds |-> "unused"]
    /\ THREAD_STATUS = [t \in ThreadIds |-> NoStatus]
    /\ RUNNING_TASKS = [t \in ThreadIds |-> NoTask]
    /\ tasks = <<>>

\* the tasks whose coroutine has not finished
LiveTasks == {k \in 1..Len(tasks) : tasks[k].state # "done"}

\* THREAD_STATUS[thread_id] = {"waitingForResponse": True, "messages": []}
\* task = asyncio.create_task(...); RUNNING_TASKS[thread_id] = task
\* (no await between the statements; the coroutine has not started yet)
CreateTask(t) ==
    /\ THREAD_STATUS' = [THREAD_STATUS EXCEPT ![t] = Status(TRUE)]
    /\ tasks' = Append(tasks, [thread |-> t, state |-> "created",
                               must_cancel |-> FALSE, exception |-> "none",
                               outcome |-> "none", error_write |-> "none"])
    /\ RUNNING_TASKS' = [RUNNING_TASKS EXCEPT ![t] = Len(tasks) + 1]

\* task.cancel(): a no-op on a task that is done; otherwise CancelledError
\* is thrown into the coroutine at its next step
Cancel(ts, k) ==
    IF k # NoTask /\ ts[k].state # "done"
    THEN [ts EXCEPT ![k].must_cancel = TRUE]
    ELSE ts

\* POST /api/chat: a thread with a fresh id, and its first run
start_new_chat ==
    /\ Len(tasks) < MaxTasks
    /\ \E t \in ThreadIds :
          /\ thread_state[t] = "unused"
          /\ thread_state' = [thread_state EXCEPT ![t] = "open"]
          /\ CreateTask(t)
    /\ UNCHANGED <<runVars, cacheVars, auxVars, sqlVars, sharedVars,
                   updateVars, agentVars>>

\* POST /api/chat/{thread_id}: the message is pushed and a run is started;
\* neither RUNNING_TASKS nor the outcome of create_message is looked at
send_message_to_existing_chat(t) ==
    /\ Len(tasks) < MaxTasks
    /\ thread_state[t] # "unused"
    /\ CreateTask(t)
    /\ UNCHANGED <<thread_state, runVars, cacheVars, auxVars, sqlVars,
                   sharedVars, updateVars, agentVars>>

\* a finally block that leaves the waiting flag as it is
ClearWaitingSkipped(status) == status

\* if THREAD_STATUS.get(thread_id):
\*     THREAD_STATUS[thread_id]["waitingForResponse"] = False
ClearWaiting(status) ==
    IF status.present THEN Status(FALSE) ELSE status

\* the finally block of generate_message_and_update, lines 75-80, reached
\* when the run ends, fails or is cancelled
generate_message_and_update_finally(k) ==
    /\ THREAD_STATUS' =
          [THREAD_STATUS EXCEPT ![tasks[k].thread] = ClearWaiting(@)]
    /\ RUNNING_TASKS' = [RUNNING_TASKS EXCEPT ![tasks[k].thread] = NoTask]

\* 'except Exception' that also catches the cancellation
HandlerOfCatchAll(e) == "log_error"

\* the except clause that handles an exception of the try block, lines
\* 54-58: CancelledError is re-raised, any other exception is logged
HandlerOf(e) == IF e = "CancelledError" THEN "reraise" ELSE "log_error"

\* the first step of the task.  A task cancelled before its first step
\* gets CancelledError thrown into a coroutine that has not started: the
\* body, and with it the try statement of lines 31-80, is never entered
generate_message_and_update_starts(k) ==
    /\ k \in LiveTasks
    /\ tasks[k].state = "created"
    /\ tasks' =
          IF tasks[k].must_cancel
          THEN [tasks EXCEPT ![k].state = "done", ![k].must_cancel = FALSE,
                             ![k].exception = "CancelledError",
                             ![k].outcome = "cancelled"]
          ELSE [tasks EXCEPT ![k].state = "running"]
    /\ UNCHANGED <<thread_state, THREAD_STATUS, RUNNING_TASKS, runVars,
                   cacheVars, auxVars, sqlVars, sharedVars, updateVars,
                   agentVars>>

\* the try block, lines 31-52, is left: the agent has finished, an
\* exception was raised, or the pending cancellation was delivered at an
\* await.  The except clause re-raises or goes on to log the error
generate_message_and_update_ends(k) ==
    /\ k \in LiveTasks
    /\ tasks[k].state = "running"
    /\ \E e \in (IF tasks[k].must_cancel THEN {"CancelledError"}
                 ELSE {"none", "Exception"}) :
          IF e = "none"
          THEN /\ tasks' = [tasks EXCEPT ![k].state = "done",
                                         ![k].outcome = "finished"]
               /\ generate_message_and_update_finally(k)
          ELSE IF HandlerOf(e) = "reraise"
          THEN /\ tasks' = [tasks EXCEPT ![k].state = "done",
                                         ![k].must_cancel = FALSE,
                                         ![k].exception = e,
                                         ![k].outcome = "cancelled"]
               /\ generate_message_and_update_finally(k)
          ELSE /\ tasks' = [tasks EXCEPT ![k].state = "handling",
                                         ![k].must_cancel = FALSE,
                                         ![k].exception = e]
               /\ UNCHANGED <<THREAD_STATUS, RUNNING_TASKS>>
    /\ UNCHANGED <<thread_state, runVars, cacheVars, auxVars, sqlVars,
                   sharedVars, updateVars, agentVars>>

\* what 'await db_manager.create_message(thread_id, error_msg_doc)' of line
\* 70 does: the message is pushed, or update_one matches no thread, or the
\* call raises; a cancellation delivered at this await interrupts it with
\* the message pushed or not
ErrorWrites(cancelled, in_store) ==
    IF cancelled
    THEN {"interrupted"} \cup (IF in_store THEN {"pushed"} ELSE {})
    ELSE {"raised"} \cup (IF in_store THEN {"pushed"} ELSE {"no_thread"})

\* the except clause of lines 58-73 and the finally block after it
generate_message_and_update_logs_error(k) ==
    /\ k \in LiveTasks
    /\ tasks[k].state = "handling"
    /\ \E w \in ErrorWrites(tasks[k].must_cancel,
                            thread_state[tasks[k].thread] = "open") :
          tasks' = [tasks EXCEPT ![k].state = "done",
                                 ![k].error_write = w,
                                 ![k].outcome = IF tasks[k].must_cancel
                                                THEN "cancelled"
                                                ELSE "failed",
                                 ![k].must_cancel = FALSE]
    /\ generate_message_and_update_finally(k)
    /\ UNCHANGED <<thread_state, runVars, cacheVars, auxVars, sqlVars,
                   sharedVars, updateVars, agentVars>>

\* POST /api/chat/{thread_id}/cancel: a plain def, run in a worker thread
cancel_chat_generation(t) ==
    /\ tasks' = Cancel(tasks, RUNNING_TASKS[t])
    /\ tasks' # tasks
    /\ UNCHANGED <<thread_state, THREAD_STATUS, RUNNING_TASKS, runVars,
                   cacheVars, auxVars, sqlVars, sharedVars, updateVars,
                   agentVars>>

\* DELETE /api/chat/{thread_id}
delete_chat_thread(t) ==
    /\ thread_state[t] = "open"
    /\ thread_state' = [thread_state EXCEPT ![t] = "deleted"]
    /\ THREAD_STATUS' = [THREAD_STATUS EXCEPT ![t] = NoStatus]
    /\ RUNNING_TASKS' = [RUNNING_TASKS EXCEPT ![t] = NoTask]
    /\ tasks' = Cancel(tasks, RUNNING_TASKS[t])
    /\ UNCHANGED <<runVars, cacheVars, auxVars, sqlVars, sharedVars,
                   updateVars, agentVars>>

\* is_still_waiting of poll_chat_status, lines 294-300
IsStillWaiting(status, registered) ==
    IF status.present THEN status.waitingForResponse ELSE registered

\* GET /api/chat/{thread_id}/poll reports is_still_waiting; the only state
\* it changes is the status entry, dropped once the poll reports false
\* (lines 355-356)
poll_chat_status(t) ==
    LET is_still_waiting ==
            IsStillWaiting(THREAD_STATUS[t], RUNNING_TASKS[t] # NoTask)
    IN  /\ ~is_still_waiting
        /\ THREAD_STATUS[t].present
        /\ THREAD_STATUS' = [THREAD_STATUS EXCEPT ![t] = NoStatus]
        /\ UNCHANGED <<thread_state, RUNNING_TASKS, tasks, runVars, cacheVars,
                       auxVars, sqlVars, sharedVars, updateVars, agentVars>>

(***************************************************************************)
(* execute_sql_tool of execute_sql_tool.py with its three executors, and   *)
(* sqlite_tool of sqlight_tool.py.  A text is a sequence of pieces that    *)
(* stands for their concatenation.                                         *)
(***************************************************************************)
\* connection_config: its db_type and whether the parameters of a
\* connection (db_path; dbname, user, host; user, dsn) are in it
SqlConfigs ==
    [db_type : {None, "", "sqlite", "postgresql", "oracle", "mysql"},
     has_params : BOOLEAN]

\* what the statement is: a query with rows, a query without rows, a
\* data-modifying statement, a data-modifying statement with RETURNING
StatementKinds == {"select", "select_empty", "dml", "dml_returning"}

\* str(results) of the rows a statement returns
RowTexts ==
    {<<"[(1,)]">>, <<"[('", "Rows affected", "',)]">>}

\* what a call into a driver does: it returns, it raises the driver's Error,
\* or it raises something else (TypeError, sqlite3.Warning, ...)
DriverOutcomes == {"ok", "driver_error", "other_exception"}

\* cursor.description is set for statements that return rows
HasDescription(kind) == kind \in {"select", "select_empty", "dml_returning"}

\* the statement changes data
Writes(kind) == kind \in {"dml", "dml_returning"}

\* _format_results(cursor), lines 26-47
format_results(kind, rows) ==
    IF HasDescription(kind)
    THEN IF kind = "select_empty"
         THEN <<"Query executed successfully, but returned no results.">>
         ELSE <<"Columns: ", "['id']", " Data: ">> \o rows
    ELSE <<"Query executed successfully. ", "Rows affected", ": ", "1">>

\* sub in text, for a piece sub
In(sub, text) == \E k \in 1..Len(text) : text[k] = sub

ErrorNoDbType == <<"Error:", " 'db_type' is missing from connection_config.">>

ErrorUnsupported(db_type) ==
    <<"Error:", " Unsupported 'db_type': ", db_type,
      ". Must be 'sqlite', 'postgresql', or 'oracle'.">>

ErrorNoDbPath ==
    <<"Error:", " 'db_path' not provided in connection_config for SQLite.">>

ErrorNoLibrary(db_type) ==
    IF db_type = "postgresql"
    THEN <<"Error:", " psycopg2 library is not installed.">>
    ELSE <<"Error:", " oracledb library is not installed.">>

ErrorOccurred == <<"An error occurred: ", "driver message">>

SqlIdle ==
    [pc |-> "idle", tool |-> None, db_type |-> None, has_params |-> FALSE,
     kind |-> "select", rows |-> <<>>, conn |-> "none", opened |-> 0,
     closed |-> 0, tx |-> "none", wrote |-> FALSE, error |-> "none",
     pending |-> NotReturned, result |-> NotReturned]

InitSql == sql = SqlIdle

\* a call that starts in an executor: conn = None, then the try block
SqlStarting(tool, config, kind, rows) ==
    [SqlIdle EXCEPT !.pc = "connect", !.tool = tool,
                    !.db_type = config.db_type,
                    !.has_params = config.has_params,
                    !.kind = kind, !.rows = rows]

\* a call that returns text before any executor opens a connection
SqlRefused(config, text) ==
    [SqlIdle EXCEPT !.pc = "done", !.tool = "execute_sql_tool",
                    !.db_type = config.db_type,
                    !.has_params = config.has_params,
                    !.result = [kind |-> "return", value |-> text]]

\* execute_sql_tool(connection_config, query), lines 171-185, and the
\* checks at the head of the executors (52-54, 77-78, 110-111)
SqlToolCall ==
    /\ sql.pc \in {"idle", "done"}
    /\ \E config \in SqlConfigs, kind \in StatementKinds, rows \in RowTexts,
          library \in BOOLEAN :
         sql' =
           IF ~Truthy(config.db_type)
           THEN SqlRefused(config, ErrorNoDbType)
           ELSE IF config.db_type = "sqlite"
           THEN IF ~config.has_params
                THEN SqlRefused(config, ErrorNoDbPath)
                ELSE SqlStarting("execute_sql_tool", config, kind, rows)
           ELSE IF config.db_type \in {"postgresql", "oracle"}
           THEN IF ~library
                THEN SqlRefused(config, ErrorNoLibrary(config.db_type))
                ELSE SqlStarting("execute_sql_tool", config, kind, rows)
           ELSE SqlRefused(config, ErrorUnsupported(config.db_type))
    /\ UNCHANGED <<runVars, cacheVars, auxVars, taskVars, sharedVars, updateVars, agentVars>>

\* sqlite_tool(db_path, query) of sqlight_tool.py, lines 9-11
SqliteToolCall ==
    /\ sql.pc \in {"idle", "done"}
    /\ \E kind \in StatementKinds, rows \in RowTexts :
         sql' = SqlStarting("sqlite_tool",
                            [db_type |-> "sqlite", has_params |-> TRUE],
                            kind, rows)
    /\ UNCHANGED <<runVars, cacheVars, auxVars, taskVars, sharedVars, updateVars, agentVars>>

\* the call leaves the try block with an exception no except clause takes
SqlUncaught(s) ==
    [s EXCEPT !.pc = "finally", !.error = "other",
              !.pending = [kind |-> "raise", exception |-> "Exception"]]

\* the call enters the except clause of the driver's Error
SqlCaught(s) == [s EXCEPT !.pc = "except", !.error = "driver"]

\* conn = sqlite3.connect(...) / psycopg2.connect(...) / oracledb.connect(...)
\* what the driver does with the parameters it is given is the driver's: a
\* driver that is given no parameters falls back on its defaults and
\* connects to what they name, or raises its Error
ConnectOutcomes(s) ==
    IF s.has_params THEN DriverOutcomes ELSE {"ok", "driver_error"}

SqlConnect ==
    /\ sql.pc = "connect"
    /\ \E outcome \in ConnectOutcomes(sql) :
         sql' =
           CASE outcome = "ok" ->
                  [sql EXCEPT !.pc = "execute", !.conn = "open",
                              !.opened = @ + 1]
             [] outcome = "driver_error" -> SqlCaught(sql)
             [] OTHER -> SqlUncaught(sql)
    /\ UNCHANGED <<runVars, cacheVars, auxVars, taskVars, sharedVars, updateVars, agentVars>>

\* the statement opens a transaction: with autocommit off (postgresql,
\* oracle) every statement does, with sqlite3 a data-modifying one does
BeginsTransaction(s) ==
    IF s.db_type = "sqlite" THEN Writes(s.kind) ELSE TRUE

\* cursor.execute(query)
SqlExecute ==
    /\ sql.pc = "execute"
    /\ \E outcome \in DriverOutcomes :
         LET begun == [sql EXCEPT !.tx = IF BeginsTransaction(sql)
                                         THEN "active" ELSE "none"]
         IN  sql' =
               CASE outcome = "ok" ->
                      [begun EXCEPT !.pc = "format", !.wrote = Writes(sql.kind)]
                 [] outcome = "driver_error" -> SqlCaught(begun)
                 [] OTHER -> SqlUncaught(begun)
    /\ UNCHANGED <<runVars, cacheVars, auxVars, taskVars, sharedVars, updateVars, agentVars>>

\* conn.commit() follows the formatting of the result: always in the
\* postgresql and oracle executors, if "Rows affected" in result in
\* _execute_sqlite, if not cursor.description in sqlite_tool
Commits(s, text) ==
    IF s.tool = "sqlite_tool" THEN ~HasDescription(s.kind)
    ELSE IF s.db_type = "sqlite" THEN In("Rows affected", text)
    ELSE TRUE

\* result = _format_results(cursor); cursor.fetchall() is called for a
\* statement with a description, and may raise
SqlFormat ==
    /\ sql.pc = "format"
    /\ LET text == format_results(sql.kind, sql.rows)
       IN  \/ sql' = [sql EXCEPT
                        !.pending = [kind |-> "return", value |-> text],
                        !.pc = IF Commits(sql, text)
                               THEN "commit" ELSE "finally"]
           \/ /\ HasDescription(sql.kind)
              /\ sql' = SqlCaught(sql)
    /\ UNCHANGED <<runVars, cacheVars, auxVars, taskVars, sharedVars, updateVars, agentVars>>

\* conn.commit()
SqlCommit ==
    /\ sql.pc = "commit"
    /\ \E outcome \in {"ok", "driver_error"} :
         sql' =
           IF outcome = "ok"
           THEN [sql EXCEPT !.pc = "finally",
                            !.tx = IF @ = "active" THEN "committed" ELSE @]
           ELSE SqlCaught([sql EXCEPT !.pending = NotReturned])
    /\ UNCHANGED <<runVars, cacheVars, auxVars, taskVars, sharedVars, updateVars, agentVars>>

\* except <driver>.Error: the postgresql and oracle executors roll back an
\* open connection, and the rollback may raise; the sqlite ones do not
SqlExcept ==
    /\ sql.pc = "except"
    /\ LET returns == [kind |-> "return", value |-> ErrorOccurred]
       IN  \/ sql' = [sql EXCEPT !.pc = "finally", !.pending = returns,
                        !.tx = IF sql.db_type # "sqlite" /\ sql.conn = "open"
                                  /\ @ = "active"
                               THEN "rolled_back" ELSE @]
           \/ /\ sql.db_type # "sqlite"
              /\ sql.conn = "open"
              /\ sql' = SqlUncaught(sql)
    /\ UNCHANGED <<runVars, cacheVars, auxVars, taskVars, sharedVars, updateVars, agentVars>>

\* finally: if conn: conn.close(); closing ends an open transaction
\* without committing it
ClosedInFinallyOnReturn(s) ==
    IF s.conn = "open" /\ s.pending.kind = "return"
    THEN [s EXCEPT !.conn = "closed", !.closed = @ + 1,
                   !.tx = IF @ = "active" THEN "discarded" ELSE @]
    ELSE s

ClosedInFinally(s) ==
    IF s.conn = "open"
    THEN [s EXCEPT !.conn = "closed", !.closed = @ + 1,
                   !.tx = IF @ = "active" THEN "discarded" ELSE @]
    ELSE s

\* the finally block, after which the call returns or raises
SqlFinally ==
    /\ sql.pc = "finally"
    /\ sql' = [ClosedInFinally(sql) EXCEPT !.pc = "done",
                                           !.result = sql.pending]
    /\ UNCHANGED <<runVars, cacheVars, auxVars, taskVars, sharedVars, updateVars, agentVars>>

(***************************************************************************)
(* MongoManager.update_message_content of mongo.py.                        *)
(***************************************************************************)
\* the ids a caller passes: those of the two messages of the thread and one
\* that is not in the thread
MessageIds == {"m1", "m2", "m9"}

NewContents == {"final text", "other text"}

InitUpdate ==
    /\ stored_messages =
          <<[id |-> "m1", role |-> "user", content |-> prompt],
            [id |-> "m2", role |-> "model", content |-> "partial"]>>
    /\ updates = <<>>

\* the positions matching "messages._id": message_id
MatchingMessages(msgs, message_id) ==
    {k \in 1..Len(msgs) : msgs[k].id = message_id}

\* an update that appends the new text to the content (a delta)
AppendContent(msgs, message_id, new_content) ==
    LET found == MatchingMessages(msgs, message_id)
    IN  IF found = {} THEN msgs
        ELSE LET k == CHOOSE j \in found : \A l \in found : j <= l
             IN  [msgs EXCEPT ![k].content = @ \o new_content]

\* {"$set": {"messages.$.content": new_content}}: the content of the first
\* matching message is replaced
SetContent(msgs, message_id, new_content) ==
    LET found == MatchingMessages(msgs, message_id)
    IN  IF found = {} THEN msgs
        ELSE LET k == CHOOSE j \in found : \A l \in found : j <= l
             IN  [msgs EXCEPT ![k].content = new_content]

\* what the call logs: matched_count == 0, modified_count == 0, or success
UpdateLog(before, after, message_id) ==
    IF MatchingMessages(before, message_id) = {} THEN "DB_UPDATE_FAILED"
    ELSE IF after = before THEN "DB_UPDATE_NO_CHANGE"
    ELSE "DB_UPDATE_SUCCESS"

\* await update_message_content(thread_id, message_id, new_content): the
\* update_one is applied, or it raises and the exception is logged
update_message_content(message_id, new_content) ==
    /\ Len(updates) < MaxUpdates
    /\ \/ LET after == SetContent(stored_messages, message_id, new_content)
          IN  /\ stored_messages' = after
              /\ updates' = Append(updates,
                    [message_id |-> message_id, new_content |-> new_content,
                     before |-> stored_messages, after |-> after,
                     logged |-> UpdateLog(stored_messages, after, message_id),
                     raised |-> FALSE])
       \/ /\ UNCHANGED stored_messages
          /\ updates' = Append(updates,
                [message_id |-> message_id, new_content |-> new_content,
                 before |-> stored_messages, after |-> stored_messages,
                 logged |-> "DB_UPDATE_ERROR", raised |-> FALSE])
    /\ UNCHANGED <<runVars, cacheVars, auxVars, taskVars, sqlVars, sharedVars, agentVars>>

InitAgent == yielded = <<>>

InitExt == InitTasks /\ InitSql /\ InitShared /\ InitUpdate /\ InitAgent

InitAux == InitKey /\ InitExplorer /\ TokenUnused

\* concurrent runs writing reports
NextCache ==
    \/ Tick
    \/ \E c \in Writers :
          \/ CacheWriteStart(c)
          \/ UpsertMatch(c)
          \/ UpsertInsert(c)
          \/ CacheWriteFails(c)

\* one run writing reports and one run reading them
NextCacheRead ==
    \/ Tick
    \/ CacheWriteStart(1)
    \/ UpsertMatch(1)
    \/ UpsertInsert(1)
    \/ CacheWriteFails(1)
    \/ CacheReadStart(Reader)
    \/ CacheReadFind(Reader)
    \/ CacheReadFails(Reader)
    \/ CacheReadCheck(Reader)

\* a run of LLM.run that has not started
RunNotStarted ==
    /\ max_calls = 0
    /\ jsonResults = FALSE
    /\ delay_ms = 0
    /\ thread_id = None
    /\ user_id = None
    /\ InitRun

InitCacheOnly == InitCache /\ RunNotStarted /\ InitAux /\ InitExt

SpecCache == InitCacheOnly /\ [][NextCache]_vars

SpecCacheRead == InitCacheOnly /\ [][NextCacheRead]_vars

Init == InitRun /\ InitCache /\ InitAux /\ InitExt

Next ==
    \/ AcquireToken
    \/ LoopHead
    \/ Sleep
    \/ StartModelCall
    \/ CallModel
    \/ LogToolCall
    \/ StartTool
    \/ Dispatch
    \/ LogToolResponse
    \/ FinalAnswer
    \/ Finish
    \/ AgentRun
    \/ GenerateMessageAndUpdateEnds

Spec == Init /\ [][Next]_vars

\* a run whose task may be cancelled from the cancel endpoint
NextCancel ==
    \/ AcquireToken
    \/ LoopHead
    \/ Sleep
    \/ StartModelCall
    \/ CallModel
    \/ LogToolCall
    \/ StartTool
    \/ Dispatch
    \/ LogToolResponse
    \/ FinalAnswer
    \/ Finish
    \/ AgentRun
    \/ GenerateMessageAndUpdateEnds
    \/ CancelChatGeneration
    \/ DeliverCancellation

SpecCancel == Init /\ [][NextCancel]_vars

\* a run, cancellable, on a thread that another run and the tools of the
\* run write to as well
NextShared ==
    \/ AcquireToken
    \/ LoopHead
    \/ Sleep
    \/ StartModelCall
    \/ CallModel
    \/ LogToolCall
    \/ StartTool
    \/ Dispatch
    \/ LogToolResponse
    \/ FinalAnswer
    \/ Finish
    \/ AgentRun
    \/ GenerateMessageAndUpdateEnds
    \/ CancelChatGeneration
    \/ DeliverCancellation
    \/ OtherRunPush
    \/ ExplorerPush

SpecShared == Init /\ [][NextShared]_vars

\* calls of update_message_content on one thread, one after another
NextUpdate ==
    \E message_id \in MessageIds, new_content \in NewContents :
        update_message_content(message_id, new_content)

SpecUpdate == InitCacheOnly /\ [][NextUpdate]_vars

\* derivations of cache keys from connection configurations
NextKey == GetCacheKey

SpecKey == InitCacheOnly /\ [][NextKey]_vars

\* calls of sql_explorer_tool, one after another, against the report cache
NextExplorer ==
    \/ Tick
    \/ ExpirationPasses
    \/ ExplorerCheckCache
    \/ CacheReadFind(Explorer)
    \/ CacheReadFails(Explorer)
    \/ CacheReadCheck(Explorer)
    \/ ExplorerAfterRead
    \/ ExplorerLogCacheHit
    \/ ExplorerGenerate
    \/ UpsertMatch(Explorer)
    \/ UpsertInsert(Explorer)
    \/ CacheWriteFails(Explorer)
    \/ ExplorerReturn

SpecExplorer == InitCacheOnly /\ [][NextExplorer]_vars

\* get_token() calls of two runs against the TokenManager singleton
NextToken ==
    \/ TimerTick
    \/ \E c \in TokenCallers :
          \/ GetToken(c)
          \/ CacheLookup(c)
          \/ PostRequest(c)
          \/ StoreToken(c)

InitTokenOnly ==
    InitCache /\ RunNotStarted /\ InitKey /\ InitExplorer /\ InitToken /\ InitExt

SpecToken == InitTokenOnly /\ [][NextToken]_vars

\* the chat endpoints of main.py creating, ending and cancelling run tasks
NextTasks ==
    \/ start_new_chat
    \/ \E t \in ThreadIds :
          \/ send_message_to_existing_chat(t)
          \/ cancel_chat_generation(t)
          \/ delete_chat_thread(t)
          \/ poll_chat_status(t)
    \/ \E k \in 1..MaxTasks :
          \/ generate_message_and_update_starts(k)
          \/ generate_message_and_update_ends(k)
          \/ generate_message_and_update_logs_error(k)

SpecTasks == InitCacheOnly /\ [][NextTasks]_vars

\* calls of execute_sql_tool and of sqlite_tool, one after another
NextSql ==
    \/ SqlToolCall
    \/ SqliteToolCall
    \/ SqlConnect
    \/ SqlExecute
    \/ SqlFormat
    \/ SqlCommit
    \/ SqlExcept
    \/ SqlFinally

SpecSql == InitCacheOnly /\ [][NextSql]_vars

(***************************************************************************)
(* Reading the trace of a run.                                             *)
(***************************************************************************)
IsCallTurn(r) == r.kind = "calls"

\* the model turns that requested tools, in order
CallTurns == SelectSeq(model_responses, IsCallTurn)

TurnInProgress == pc \in {"log_call", "dispatch", "in_tool", "log_response"}

\* the tool turns whose requests have all been processed
CompletedTurns ==
    IF TurnInProgress THEN SubSeq(CallTurns, 1, Len(CallTurns) - 1) ELSE CallTurns

RECURSIVE RequestsBefore(_, _)
\* the number of requests of the tool turns before turn j
RequestsBefore(turns, j) ==
    IF j <= 1 THEN 0
    ELSE RequestsBefore(turns, j - 1) + Len(turns[j - 1].calls)

\* the step trace entry of request p of tool turn j
StepOf(j, p) == intermediate_steps[RequestsBefore(CallTurns, j) + p]

IsUnknown(call) == FindTool(call.name) = NoTool

LastResponse == model_responses[Len(model_responses)]

ReturnedNormally ==
    pc = "returned" /\ returned.kind = "return" /\ ~token_error

\* an exception leaves the run only from the model call or from extract_json
RaisesOnlyOutsideDispatch ==
    returned.kind = "raise" =>
        \/ /\ returned.exception = "TransportError"
           /\ Len(model_calls) = Len(model_responses) + 1
        \/ /\ returned.exception = "ValueError"
           /\ model_responses # <<>>
           /\ LastResponse.kind = "text"

\* a run that returned after a tool turn had used up its call budget
EndsOnToolTurnOnlyAtBudget ==
    (ReturnedNormally /\ model_responses # <<>> /\ LastResponse.kind = "calls")
        => Len(model_calls) = max_calls

(***************************************************************************)
(* C1.  Every model turn with n >= 1 tool-call parts makes the in-memory   *)
(* history grow by exactly one 'tool' message whose parts are the n        *)
(* function responses, one per request and in request order; nothing is    *)
(* appended while the turn is in progress and nothing else for that turn.  *)
(***************************************************************************)
C1_ToolCallBatching ==
    messages # <<>> =>
        /\ Len(messages) = 1 + Len(CompletedTurns)
        /\ \A j \in 1..Len(CompletedTurns) :
             LET m == messages[1 + j]
                 calls == CompletedTurns[j].calls
             IN  /\ m.role = "tool"
                 /\ Len(m.parts) = Len(calls)
                 /\ \A p \in 1..Len(calls) :
                      /\ StepOf(j, p)[1] = calls[p]
                      /\ m.parts[p] = FunctionResponsePart(calls[p].name, StepOf(j, p)[2])

\* a turn that requested two different tools was batched into one message
C1_Witness ==
    \E j \in 1..Len(messages) :
        /\ messages[j].role = "tool"
        /\ Len(messages[j].parts) = 2
        /\ messages[j].parts[1].function_response.name
              # messages[j].parts[2].function_response.name

(***************************************************************************)
(* C2.  A request for a tool that is not in the tools list does not raise: *)
(* its recorded result is the error text naming the tool, the run goes on, *)
(* and the next model call (if the budget allows one) receives a history   *)
(* whose last message is the tool message holding that error text.         *)
(***************************************************************************)
C2_UnknownToolResilience ==
    /\ \A n \in 1..Len(intermediate_steps) :
         IsUnknown(intermediate_steps[n][1]) =>
            intermediate_steps[n][2] = UnknownToolText(intermediate_steps[n][1].name)
    /\ (pc = "log_response" /\ IsUnknown(func_call_parts[part_idx])) =>
          /\ func_results = UnknownToolText(func_call_parts[part_idx].name)
          /\ returned = NotReturned
    /\ \A c \in 2..Len(model_calls) :
         LET history == model_calls[c]
             last == history[Len(history)]
             calls == model_responses[c - 1].calls
         IN  \A p \in 1..Len(calls) :
               IsUnknown(calls[p]) =>
                  /\ last.role = "tool"
                  /\ last.parts[p].function_response.response.content
                        = UnknownToolText(calls[p].name)
    /\ RaisesOnlyOutsideDispatch
    /\ (\E p \in 1..Len(func_call_parts) : IsUnknown(func_call_parts[p]))
          => EndsOnToolTurnOnlyAtBudget

\* the model asked for does_not_exist and was called again afterwards
C2_Witness ==
    /\ Len(model_calls) >= 2
    /\ model_responses[1].kind = "calls"
    /\ model_responses[1].calls[1].name = "does_not_exist"

(***************************************************************************)
(* C3.  An exception raised by the call of a resolved tool is caught and   *)
(* replaced by the 'Error: Failed to execute tool ...' text as the result  *)
(* of that request; the other requests of the turn are still dispatched,   *)
(* the batched tool message is still appended and the loop goes on.        *)
(***************************************************************************)
C3_ToolExceptionRecovered ==
    /\ \A n \in 1..Len(tool_invocations) :
         LET inv == tool_invocations[n]
             recorded == IF inv.request <= Len(intermediate_steps)
                         THEN intermediate_steps[inv.request][2]
                         ELSE func_results
         IN  inv.outcome.kind = "raise" =>
                /\ inv.request <= Len(intermediate_steps) \/ pc = "log_response"
                /\ recorded = ExecutionErrorText(inv.name, inv.outcome.value)
    /\ RaisesOnlyOutsideDispatch
    /\ \A j \in 1..Len(CompletedTurns) :
         LET calls == CompletedTurns[j].calls
             first == RequestsBefore(CallTurns, j)
         IN  /\ first + Len(calls) <= Len(intermediate_steps)
             /\ Len(messages) >= 1 + j
             /\ \A p \in 1..Len(calls) :
                  /\ ~IsUnknown(calls[p]) =>
                        \E n \in 1..Len(tool_invocations) :
                           /\ tool_invocations[n].request = first + p
                           /\ tool_invocations[n].name = calls[p].name
                  /\ messages[1 + j].parts[p].function_response.response.content
                        = intermediate_steps[first + p][2]
    /\ EndsOnToolTurnOnlyAtBudget

\* the first tool of a two-request turn raised, the second one was still
\* called, and the model was called again
C3_Witness ==
    /\ Len(model_calls) >= 2
    /\ Len(tool_invocations) >= 2
    /\ tool_invocations[1].outcome.kind = "raise"
    /\ tool_invocations[1].bound
    /\ tool_invocations[2].request = 2
    /\ Len(model_responses[1].calls) = 2

(***************************************************************************)
(* C4.  A run makes at most max_calls model calls.  When the response to   *)
(* the last permitted call is a tool request, each tool of the turn is     *)
(* dispatched once, the batched tool message is appended, no further model *)
(* call is made and the run returns the empty final result.                *)
(***************************************************************************)
C4_CallBudget ==
    /\ Len(model_calls) <= max_calls
    /\ (/\ ReturnedNormally
        /\ max_calls > 0
        /\ Len(model_responses) = max_calls
        /\ LastResponse.kind = "calls") =>
          LET calls == LastResponse.calls
              history == returned.metadata.message_history
              steps == returned.metadata.intermediate_steps
              first == Len(steps) - Len(calls)
          IN  /\ returned.final_result = ""
              /\ Len(model_calls) = max_calls
              /\ Len(history) = 1 + Len(CallTurns)
              /\ history[Len(history)].role = "tool"
              /\ Len(history[Len(history)].parts) = Len(calls)
              /\ first = RequestsBefore(CallTurns, Len(CallTurns))
              /\ \A p \in 1..Len(calls) :
                   /\ steps[first + p][1] = calls[p]
                   /\ Cardinality({n \in 1..Len(tool_invocations) :
                                     tool_invocations[n].request = first + p})
                         = IF IsUnknown(calls[p]) THEN 0 ELSE 1

\* a run with max_calls = 2 whose two model calls both requested tools
C4_Witness ==
    /\ ReturnedNormally
    /\ max_calls = 2
    /\ Len(model_responses) = 2
    /\ LastResponse.kind = "calls"
    /\ tool_invocations # <<>>

(***************************************************************************)
(* C5.  For every run that got its credential, metadata['iterations'] is   *)
(* the number of model calls made (0 when max_calls is 0); a run in which  *)
(* the model requests tools on k turns and then answers with a non-empty   *)
(* text T, with jsonResults off, returns exactly T with iterations k + 1.  *)
(***************************************************************************)
C5_Iterations ==
    ReturnedNormally =>
        /\ returned.metadata.iterations = Len(model_calls)
        /\ (/\ model_responses # <<>>
            /\ LastResponse.kind = "text"
            /\ Truthy(LastResponse.text)
            /\ ~jsonResults) =>
              /\ returned.final_result = LastResponse.text
              /\ returned.metadata.iterations = Len(CallTurns) + 1

\* one tool turn, then the final text: iterations = 2
C5_Witness ==
    /\ ReturnedNormally
    /\ ~jsonResults
    /\ Len(CallTurns) = 1
    /\ Len(model_responses) = 2
    /\ returned.final_result = "There are 100 customers."
    /\ returned.metadata.iterations = 2

(***************************************************************************)
(* C6.  When token_manager.get_token() fails, the run returns at once the  *)
(* fixed authentication-error text with empty metadata: no model call, no  *)
(* tool dispatch, no persisted message, no exception.                      *)
(***************************************************************************)
C6_AuthFailureReturns ==
    token_error =>
        /\ pc = "returned"
        /\ returned = [kind |-> "return",
                       final_result |-> "Error: Could not authenticate with LLM service.",
                       metadata |-> EmptyDict]
        /\ model_calls = <<>>
        /\ tool_invocations = <<>>
        /\ intermediate_steps = <<>>
        /\ messages = <<>>
        /\ thread = <<>>

\* a run with a thread context whose credential acquisition failed
C6_Witness ==
    /\ token_error
    /\ pc = "returned"
    /\ thread_id = "t1"
    /\ max_calls > 0

(***************************************************************************)
(* C7.  In a run that has a thread id and a user id, a dispatched tool     *)
(* that declares the hidden context parameters __thread_id and __user_id   *)
(* is called with both, each holding the value of the run's context.       *)
(***************************************************************************)
HiddenParams == {"__thread_id", "__user_id"}

ContextValue(h) == IF h = "__thread_id" THEN thread_id ELSE user_id

C7_HiddenContextInjected ==
    HasLogContext(thread_id, user_id) =>
    \A n \in 1..Len(tool_invocations) :
        LET inv == tool_invocations[n]
        IN  \A h \in HiddenParams \cap FindTool(inv.name).params :
               /\ h \in DOMAIN inv.args
               /\ inv.args[h] = ContextValue(h)

(***************************************************************************)
(* C8.  No value the model supplies for a hidden context parameter reaches *)
(* a tool: in a run that has a thread id and a user id, whenever the body  *)
(* of a tool runs, each hidden parameter it received holds the value of    *)
(* the run's context.                                                      *)
(***************************************************************************)
C8_HiddenParamsFromContextOnly ==
    HasLogContext(thread_id, user_id) =>
    \A n \in 1..Len(tool_invocations) :
        LET inv == tool_invocations[n]
        IN  inv.bound =>
               \A h \in HiddenParams \cap DOMAIN inv.args :
                  inv.args[h] = ContextValue(h)

(***************************************************************************)
(* C9 (as claimed).  For a cache entry with cached_at = now - d that the   *)
(* read finds, get_cached_sql_report(key, max_age) returns the stored      *)
(* report if and only if d < max_age, and None otherwise; now is the clock *)
(* at the time of the read.                                                *)
(***************************************************************************)
ReadAge(r) == r.read_at - r.cached_doc.cached_at

CompletedRead == cache_call[Reader]

C9_ValidIffYounger ==
    (CompletedRead.op = "read_done" /\ CompletedRead.found) =>
        /\ CompletedRead.result = CompletedRead.cached_doc.report_content
              <=> ReadAge(CompletedRead) < CompletedRead.max_age_days
        /\ CompletedRead.result # CompletedRead.cached_doc.report_content
              => CompletedRead.result = None

(***************************************************************************)
(* C9 (amended).  For a cache entry with cached_at = now - d that the read *)
(* finds, get_cached_sql_report(key, max_age) returns the stored report if *)
(* and only if d <= max_age, and None otherwise: an entry aged exactly     *)
(* max_age is still valid.  now is the clock at the time of the read.      *)
(***************************************************************************)
C9_ValidUntilMaxAge ==
    (CompletedRead.op = "read_done" /\ CompletedRead.found) =>
        /\ CompletedRead.result = CompletedRead.cached_doc.report_content
              <=> ReadAge(CompletedRead) <= CompletedRead.max_age_days
        /\ CompletedRead.result # CompletedRead.cached_doc.report_content
              => CompletedRead.result = None

\* a read of an entry aged exactly max_age returned the report
C9_Witness ==
    /\ CompletedRead.op = "read_done"
    /\ CompletedRead.found
    /\ ReadAge(CompletedRead) = CompletedRead.max_age_days
    /\ CompletedRead.result = CompletedRead.cached_doc.report_content

(***************************************************************************)
(* C10.  After any sequence of cache_sql_report calls, concurrent ones     *)
(* included, the cache holds at most one entry per key, and that entry     *)
(* carries the content and the cached_at of the last completed write for   *)
(* the key.                                                                *)
(***************************************************************************)
C10_OneEntryPerKey ==
    \A k \in DbPaths :
        LET entries == Matching(sql_reports_cache, k)
        IN  /\ Cardinality(entries) <= 1
            /\ last_write[k] = NoWrite => entries = {}
            /\ last_write[k] # NoWrite =>
                  /\ entries # {}
                  /\ \A n \in entries :
                       /\ sql_reports_cache[n].report_content = last_write[k].report_content
                       /\ sql_reports_cache[n].cached_at = last_write[k].cached_at

\* a second write to a key replaced the entry of the first one, while the
\* other run is in the middle of its own upsert of that key
C10_Witness ==
    \E k \in DbPaths :
        /\ last_write[k] # NoWrite
        /\ ~last_write[k].upserted
        /\ last_write[k].report_content = ReportOf(2)
        /\ last_write[k].cached_at > 0
        /\ Cardinality(Matching(sql_reports_cache, k)) = 1
        /\ cache_call[1].op = "insert"
        /\ cache_call[1].db_path = k

(***************************************************************************)
(* C12.  The key that _get_cache_key_from_config derives does not depend   *)
(* on the password: every configuration that differs from the given one    *)
(* only in its password has the same key, whatever its db_type.            *)
(***************************************************************************)
WithoutPassword(config) ==
    [k \in DOMAIN config \ {"password"} |-> config[k]]

C12_KeyIgnoresPassword ==
    cache_key # None =>
        \A other \in Configs :
            WithoutPassword(other) = WithoutPassword(key_config)
                => get_cache_key_from_config(other) = cache_key

(***************************************************************************)
(* C11.  A storage failure never raises out of a cache operation: a failed *)
(* get_cached_sql_report returns None, so that sql_explorer_tool goes on   *)
(* to generate the report, and a failed cache_sql_report is dropped, so    *)
(* that sql_explorer_tool returns the report it generated.  The tool       *)
(* raises only when its nested run does.                                   *)
(***************************************************************************)
C11_CacheFailuresSwallowed ==
    /\ \A c \in Callers :
          /\ cache_call[c] # Raised
          /\ (cache_call[c].op = "read_done" /\ cache_call[c].failed)
                => cache_call[c].result = None
    /\ explorer.read_failed =>
          /\ explorer.cached_report = None
          /\ explorer.pc \in {"generate", "cache_write", "return", "returned", "raised"}
          /\ ~explorer.cache_hit_logged
    /\ explorer.pc = "raised" => explorer.returned.raised_by = "llm.run"
    /\ (explorer.pc = "returned" /\ explorer.cached_report = None) =>
          explorer.returned = [kind |-> "return", value |-> explorer.result_text]

\* a call whose cache read failed and whose cache write failed (the key has
\* no entry) returned the report it generated
C11_Witness ==
    /\ explorer.pc = "returned"
    /\ explorer.read_failed
    /\ Truthy(explorer.result_text)
    /\ explorer.returned = [kind |-> "return", value |-> explorer.result_text]
    /\ Matching(sql_reports_cache, explorer.cache_key) = {}

(***************************************************************************)
(* Reading the get_token() calls.                                          *)
(***************************************************************************)
DynamicConfigured ==
    ~Truthy(static_api_key) /\ Truthy(client_id) /\ Truthy(token_url)

\* the lookup of the call found a credential younger than the TTL
SawLive(call) == \E it \in call.seen : Live(it, call.at)

IssuedTokens == {Tok(n) : n \in 1..issued}

(***************************************************************************)
(* C13.  With a static credential configured every get_token() call        *)
(* returns it: no request goes to the token endpoint, the cache is neither *)
(* read nor written, and the result is the same at every time.             *)
(***************************************************************************)
C13_StaticCredential ==
    Truthy(static_api_key) =>
        /\ jwt_cache = {}
        /\ issued = 0
        /\ \A c \in TokenCallers :
              /\ token_call[c].pc \in {"idle", "done"}
              /\ ~token_call[c].looked_up
              /\ ~token_call[c].requested
              /\ ~token_call[c].stored
              /\ token_call[c].pc = "done" =>
                    token_call[c].result =
                        [kind |-> "return", value |-> static_api_key]

\* two calls at different times, with dynamic issuance configured as well,
\* both returned the static credential
C13_Witness ==
    /\ Truthy(static_api_key)
    /\ Truthy(client_id) /\ Truthy(token_url)
    /\ token_call["run_a"].pc = "done" /\ token_call["run_a"].at = 0
    /\ token_call["run_b"].pc = "done" /\ token_call["run_b"].at = MaxTimer
    /\ token_call["run_a"].result = token_call["run_b"].result

(***************************************************************************)
(* C14.  With dynamic issuance get_token() sends a request to the token    *)
(* endpoint only when its lookup found the slot empty or found a           *)
(* credential whose age had reached the TTL; a lookup that finds a younger *)
(* credential returns it unchanged.  A successful request leaves exactly   *)
(* the new token in the slot, so the cache never holds more than one       *)
(* credential.                                                             *)
(***************************************************************************)
C14_RequestOnlyWhenStale ==
    DynamicConfigured =>
        /\ Cardinality(jwt_cache) <= 1
        /\ \A c \in TokenCallers :
              /\ token_call[c].requested =>
                    token_call[c].looked_up /\ ~SawLive(token_call[c])
              /\ (token_call[c].looked_up /\ SawLive(token_call[c])) =>
                    /\ token_call[c].pc = "done"
                    /\ ~token_call[c].stored
                    /\ \E it \in token_call[c].seen :
                          token_call[c].result =
                              [kind |-> "return", value |-> it.value]

C14_StoreReplaces ==
    \A c \in TokenCallers :
        (token_call[c].pc = "store" /\ token_call'[c].pc = "done") =>
            jwt_cache' = {[key |-> "jwt_token", value |-> token_call[c].token,
                           stored_at |-> timer]}

C14_SingleSlotTTL == []C14_RequestOnlyWhenStale /\ [][C14_StoreReplaces]_vars

\* a lookup found a credential younger than the TTL and returned it, after
\* an earlier credential had aged out and had been replaced
C14_Witness ==
    /\ DynamicConfigured
    /\ \E c \in TokenCallers :
          /\ token_call[c].pc = "done"
          /\ token_call[c].looked_up
          /\ SawLive(token_call[c])
          /\ token_call[c].result = [kind |-> "return", value |-> Tok(2)]
          /\ jwt_cache = token_call[c].seen
    /\ issued = 2

(***************************************************************************)
(* C15.  get_token() raises when neither a static credential nor a dynamic *)
(* configuration is present, and when the dynamic request fails by a       *)
(* network error, a status outside 2xx or a body that is empty after       *)
(* trimming; a failing call writes nothing to the cache.                   *)
(***************************************************************************)
Non2xx(status) == ~(200 <= status /\ status < 300)

C15_FailuresRaise ==
    \A c \in TokenCallers :
        LET call == token_call[c]
        IN  /\ (call.pc = "done" /\ ~Truthy(static_api_key)
                  /\ ~(Truthy(client_id) /\ Truthy(token_url)))
                  => call.result.kind = "raise"
            /\ (call.pc = "done" /\ call.requested
                  /\ call.response.kind = "network_error")
                  => call.result.kind = "raise"
            /\ (call.pc = "done" /\ call.requested
                  /\ call.response.kind = "response"
                  /\ Non2xx(call.response.status))
                  => call.result.kind = "raise"
            /\ (call.pc = "done" /\ call.requested
                  /\ call.response.kind = "response"
                  /\ Strip(call.response.body) = "")
                  => call.result.kind = "raise"
            /\ call.result.kind = "raise" => ~call.stored

(***************************************************************************)
(* C16.  When two runs call get_token() with an empty cache and dynamic    *)
(* issuance, and the endpoint answers both with non-empty tokens, both     *)
(* calls return a non-empty token and the slot ends with exactly one       *)
(* complete token, the one of the request stored last.                     *)
(***************************************************************************)
BothRefreshed ==
    /\ DynamicConfigured
    /\ \A c \in TokenCallers :
          /\ token_call[c].pc = "done"
          /\ token_call[c].looked_up
          /\ token_call[c].seen = {}
          /\ token_call[c].stored

C16_LastWriteWins ==
    /\ \A it \in jwt_cache : it.value \in IssuedTokens
    /\ BothRefreshed =>
          /\ \A c \in TokenCallers :
                /\ token_call[c].result.kind = "return"
                /\ token_call[c].result.value \in IssuedTokens
                /\ token_call[c].result.value # ""
          /\ Cardinality(jwt_cache) = 1
          /\ \E c \in TokenCallers, it \in jwt_cache :
                it.value = token_call[c].result.value

\* both runs found the cache empty, both requested a token, and the slot
\* holds the token of run_a although run_b was issued the later one
C16_Witness ==
    /\ BothRefreshed
    /\ token_call["run_a"].result.value = Tok(1)
    /\ token_call["run_b"].result.value = Tok(2)
    /\ \A it \in jwt_cache : it.value = Tok(1)

(***************************************************************************)
(* C17.  Within one run at most one call is in flight: a model-service     *)
(* call is alone, so none starts while a tool executes, and the tool calls *)
(* of a turn run one after another in request order, each one starting     *)
(* only after the results of all earlier requests have been recorded.      *)
(***************************************************************************)
C17_StrictlySequential ==
    /\ Cardinality(in_flight) <= 1
    /\ \A f \in in_flight :
          /\ f.op = "model" =>
                /\ pc = "in_model"
                /\ f.n = Len(model_calls) + 1
          /\ f.op = "tool" =>
                /\ pc = "in_tool"
                /\ f.part = part_idx
                /\ f.request = Len(intermediate_steps) + 1
                /\ Len(tool_result_parts_for_history) = part_idx - 1
    /\ pc = "in_model" => in_flight = {ModelCall(Len(model_calls) + 1)}
    /\ \A n, m \in 1..Len(tool_invocations) :
          n < m => tool_invocations[n].request < tool_invocations[m].request

\* the second tool of a turn is executing after the first one has returned
C17_Witness ==
    /\ pc = "in_tool"
    /\ part_idx = 2
    /\ in_flight = {ToolCall(2, Len(intermediate_steps) + 1, FALSE)}
    /\ Len(tool_invocations) = 1
    /\ Len(tool_result_parts_for_history) = 1

(***************************************************************************)
(* C18.  A model turn without a tool-call request ends the run in that     *)
(* iteration: its text (the empty string if it has none) is the final      *)
(* result, and with a thread context the final result is stored as one new *)
(* 'model' message of the thread.  (Stated for runs without jsonResults    *)
(* and without storage failures.)                                          *)
(***************************************************************************)
C18_FinalAnswerPersisted ==
    (/\ pc = "returned"
     /\ ~token_error
     /\ model_responses # <<>>
     /\ LastResponse.kind = "text"
     /\ ~jsonResults
     /\ db_failures = 0) =>
        /\ returned.kind = "return"
        /\ returned.final_result = LastResponse.text
        /\ returned.metadata.iterations = Len(model_responses)
        /\ Truthy(thread_id) =>
              /\ thread # <<>>
              /\ thread[Len(thread)] = ModelDoc(returned.final_result)

(***************************************************************************)
(* C19 (as claimed).  A model-service call that raises is not caught in    *)
(* LLM.run: the exception leaves the run, no model call and no tool        *)
(* dispatch follows, and generate_message_and_update turns it into an      *)
(* error-role message of the thread.                                       *)
(***************************************************************************)
TransportFailed ==
    returned = [kind |-> "raise", exception |-> "TransportError"]

TransportErrorText ==
    "An error occurred while processing your request: TransportError"

IsErrorMessage(doc) == doc.role = "error" /\ doc.content = TransportErrorText

C19_Propagates ==
    TransportFailed =>
        /\ pc = "raised"
        /\ in_flight = {}
        /\ Len(model_calls) = Len(model_responses) + 1

C19_NothingFollows ==
    TransportFailed =>
        /\ model_calls' = model_calls
        /\ tool_invocations' = tool_invocations
        /\ in_flight' = in_flight
        /\ returned' = returned

C19_HandlerLogs ==
    (TransportFailed /\ task = "running" /\ task' # "running") =>
        /\ task' = "failed"
        /\ Len(thread') = Len(thread) + 1
        /\ IsErrorMessage(thread'[Len(thread')])

C19_ErrorAlwaysLogged ==
    []C19_Propagates /\ [][C19_NothingFollows /\ C19_HandlerLogs]_vars

(***************************************************************************)
(* C19 (amended).  A model-service call that raises is not caught in       *)
(* LLM.run: the exception leaves the run, no model call and no tool        *)
(* dispatch follows, and generate_message_and_update appends an error-role *)
(* message to the thread, unless storing that message fails as well: then  *)
(* the failure is only printed and the thread is left as it was.           *)
(***************************************************************************)
C19_HandlerLogsUnlessStoreFails ==
    (TransportFailed /\ task = "running" /\ task' # "running") =>
        /\ task' = "failed"
        /\ \/ /\ Len(thread') = Len(thread) + 1
              /\ IsErrorMessage(thread'[Len(thread')])
              /\ db_failures' = db_failures
           \/ /\ thread' = thread
              /\ db_failures' = db_failures + 1

C19_ErrorLoggedBestEffort ==
    []C19_Propagates
        /\ [][C19_NothingFollows /\ C19_HandlerLogsUnlessStoreFails]_vars

\* a model call raised after a tool turn, and the task has logged the error
C19_Witness ==
    /\ TransportFailed
    /\ task = "failed"
    /\ Len(tool_invocations) >= 1
    /\ thread # <<>>
    /\ IsErrorMessage(thread[Len(thread)])

(***************************************************************************)
(* C20.  After task.cancel() no tool call of the run is dispatched: every  *)
(* tool call of the run was entered before the cancellation was requested, *)
(* with or without a thread/user context and for synchronous and coroutine *)
(* tools alike.                                                            *)
(***************************************************************************)
C20_NoDispatchAfterCancel ==
    \A f \in in_flight : f.op = "tool" => ~f.after_cancel

(***************************************************************************)
(* C21: every run task of a thread that has not finished is the task the   *)
(* cancel endpoint of that thread would cancel, that is, the entry of its  *)
(* thread in RUNNING_TASKS, also after a second message was posted to the  *)
(* thread while an earlier run of it was still executing.                  *)
(***************************************************************************)
C21_LiveTasksCancellable ==
    \A k \in LiveTasks : RUNNING_TASKS[tasks[k].thread] = k

(***************************************************************************)
(* C22: when a call of execute_sql_tool has returned, the transaction of   *)
(* its statement is settled on every backend: a statement that succeeded   *)
(* and changed data is committed, and a transaction in which the driver    *)
(* raised an error is rolled back, by the executor or by the close of the  *)
(* connection.                                                             *)
(***************************************************************************)
SqlCallDone == sql.pc = "done" /\ sql.tool = "execute_sql_tool"

C22_TransactionSettled ==
    SqlCallDone /\ sql.opened > 0 =>
        /\ sql.tx # "active"
        /\ sql.error = "none" /\ sql.wrote => sql.tx = "committed"
        /\ sql.error = "driver" => sql.tx \in {"none", "rolled_back", "discarded"}

(***************************************************************************)
(* C23: a connection an executor opened is closed exactly once by the time *)
(* the executor returns or raises, whatever the exit path: success, a      *)
(* driver error, an error raised by commit or rollback, or another         *)
(* exception; and no connection is closed that was not opened.             *)
(***************************************************************************)
C23_ConnectionReleased ==
    /\ sql.closed <= sql.opened
    /\ sql.opened <= 1
    /\ sql.pc = "done" => sql.conn # "open" /\ sql.closed = sql.opened

\* an executor raised after it had opened a connection, and closed it
C23_Witness ==
    /\ sql.pc = "done"
    /\ sql.result.kind = "raise"
    /\ sql.opened = 1
    /\ sql.closed = 1

(***************************************************************************)
(* C24: execute_sql_tool does not raise for a bad connection descriptor:   *)
(* a missing db_type, an unsupported db_type or missing connection         *)
(* parameters of the selected backend end in an error text as the result,  *)
(* and for a missing or unsupported db_type no connection is opened.       *)
(***************************************************************************)
NoBackend == sql.db_type \notin {"sqlite", "postgresql", "oracle"}

BadDescriptor == NoBackend \/ ~sql.has_params

IsErrorText(text) == Head(text) \in {"Error:", "An error occurred: "}

C24_BadDescriptorIsText ==
    SqlCallDone /\ BadDescriptor =>
        /\ sql.result.kind = "return"
        /\ IsErrorText(sql.result.value)
        /\ NoBackend => sql.opened = 0

(***************************************************************************)
(* C25: with a thread id and a user id, every tool invocation is recorded  *)
(* on the thread as a tool_call message followed by a tool_response        *)
(* message, as long as no write fails; and a logging write that fails is   *)
(* caught: the run goes on to the step that follows, and the tool's        *)
(* result, the step trace and the in-memory history are what they are      *)
(* without the failure.                                                    *)
(***************************************************************************)
ToolLog == SelectSeq(thread, LAMBDA m : m.role = "tool")

C25_BothMessagesRecorded ==
    HasLogContext(thread_id, user_id) /\ db_failures = 0 =>
        LET n == Len(intermediate_steps)
        IN  /\ Len(ToolLog) \in {2 * n, 2 * n + 1}
            /\ \A k \in 1..n :
                 LET call == intermediate_steps[k][1]
                     result == intermediate_steps[k][2]
                 IN  /\ ToolLog[2 * k - 1] =
                           ToolCallDoc(call.name, call.args, user_id)
                     /\ ToolLog[2 * k] =
                           ToolResponseDoc(call.name, result, user_id)
            /\ Len(ToolLog) = 2 * n + 1 =>
                 /\ pc \in {"dispatch", "in_tool", "log_response"}
                 /\ ToolLog[2 * n + 1] =
                       ToolCallDoc(func_call_parts[part_idx].name,
                                   func_call_parts[part_idx].args, user_id)

C25_LogFailureCaught ==
    db_failures' > db_failures /\ pc \in {"log_call", "log_response"} =>
        /\ pc' # "raised"
        /\ returned' = returned
        /\ func_results' = func_results
        /\ pc = "log_call" =>
              /\ pc' = "dispatch"
              /\ intermediate_steps' = intermediate_steps
              /\ messages' = messages
        /\ pc = "log_response" =>
              LET call == func_call_parts[part_idx]
                  parts == Append(tool_result_parts_for_history,
                                  FunctionResponsePart(call.name, func_results))
              IN  /\ pc' \in {"log_call", "loop"}
                  /\ intermediate_steps' =
                        Append(intermediate_steps, <<call, func_results>>)
                  /\ messages' =
                        IF part_idx = Len(func_call_parts)
                        THEN Append(messages, ToolMessage(parts))
                        ELSE messages

C25_ToolLogBestEffort ==
    []C25_BothMessagesRecorded /\ [][C25_LogFailureCaught]_vars

\* a run with a log context has returned although one of the writes of its
\* tool log failed
C25_Witness ==
    /\ ReturnedNormally
    /\ HasLogContext(thread_id, user_id)
    /\ db_failures = 1
    /\ Len(intermediate_steps) >= 1
    /\ Len(ToolLog) = 2 * Len(intermediate_steps) - 1

(***************************************************************************)
(* C26: for each tool request of a turn, in request order, the run logs    *)
(* the tool_call message, dispatches the tool, logs the tool_response      *)
(* message and appends the step to the trace.  The tool messages a run     *)
(* has persisted are the call/response pairs of its requests in request    *)
(* order, a tool_response never precedes its tool_call, and the 'model'    *)
(* message of the run follows all of its tool messages.                    *)
(***************************************************************************)
ExpectedCall(call) ==
    [role |-> "tool", user_id |-> user_id, type |-> "tool_call",
     content |-> [name |-> call.name, arguments |-> call.args]]

ExpectedResponse(call, result) ==
    [role |-> "tool", user_id |-> user_id, type |-> "tool_response",
     content |-> [name |-> call.name, response |-> result]]

RECURSIVE PairLog(_)
\* the call/response pairs of a step trace
PairLog(steps) ==
    IF steps = <<>> THEN <<>>
    ELSE <<ExpectedCall(Head(steps)[1]),
           ExpectedResponse(Head(steps)[1], Head(steps)[2])>>
         \o PairLog(Tail(steps))

\* the request whose tool_call write is behind the run and whose
\* tool_response write is ahead of it
PendingCall ==
    IF pc \in {"dispatch", "in_tool", "log_response"}
    THEN <<ExpectedCall(func_call_parts[part_idx])>>
    ELSE <<>>

RECURSIVE IsSubseq(_, _)
\* s is t with some elements left out
IsSubseq(s, t) ==
    IF s = <<>> THEN TRUE
    ELSE IF t = <<>> THEN FALSE
    ELSE IF Head(s) = Head(t) THEN IsSubseq(Tail(s), Tail(t))
    ELSE IsSubseq(s, Tail(t))

\* the order of the steps of a request, read off the trace of the run
C26_StepOrder ==
    LET n == Len(intermediate_steps)
        dispatched(r) ==
            \E k \in 1..Len(tool_invocations) : tool_invocations[k].request = r
    IN  /\ \A k \in 1..Len(tool_invocations) : tool_invocations[k].request <= n + 1
        /\ dispatched(n + 1) => pc = "log_response"
        /\ \A k \in 1..Len(thread) :
             thread[k].role = "model" =>
                /\ pc \in {"end", "returned"}
                /\ \A j \in (k + 1)..Len(thread) : thread[j].role # "tool"

C26_LogIsPairs ==
    IF Truthy(thread_id) /\ Truthy(user_id)
    THEN ToolLog \in {PairLog(intermediate_steps),
                      PairLog(intermediate_steps) \o PendingCall}
    ELSE ToolLog = <<>>

C26_LogInOrder ==
    IF Truthy(thread_id) /\ Truthy(user_id)
    THEN LET all == PairLog(intermediate_steps) \o PendingCall
         IN  /\ IsSubseq(ToolLog, all)
             /\ Len(all) - Len(ToolLog) <= db_failures
    ELSE ToolLog = <<>>

\* the claim as stated: the persisted tool messages always form the pairs
C26_PairsAlways == C26_StepOrder /\ C26_LogIsPairs

\* the persisted tool messages are the pairs in request order with the
\* messages left out whose write failed
C26_PairsUnlessWriteFails ==
    /\ C26_StepOrder
    /\ C26_LogInOrder
    /\ db_failures = 0 => C26_LogIsPairs

\* a run has returned with two requests processed, the model message last
\* on the thread, and the tool_call message of the first request missing
C26_Witness ==
    /\ ReturnedNormally
    /\ Truthy(thread_id) /\ Truthy(user_id)
    /\ Len(intermediate_steps) = 2
    /\ Len(ToolLog) = 3
    /\ ToolLog[1].type = "tool_response"
    /\ thread[Len(thread)].role = "model"

(***************************************************************************)
(* C27: the thread of a run is only ever appended to: at every step of the *)
(* run, of another run of the same thread and of a tool of the run, every  *)
(* message that was on the thread is still there, unchanged and at the     *)
(* same position.                                                          *)
(***************************************************************************)
ThreadExtended ==
    /\ Len(thread') >= Len(thread)
    /\ SubSeq(thread', 1, Len(thread)) = thread

C27_AppendOnly == [][ThreadExtended]_vars

\* the thread holds messages of the tool log of the run, of a tool of the
\* run and of another run, and the run has ended
C27_Witness ==
    /\ pc \in {"returned", "raised", "cancelled"}
    /\ pushed.other >= 1
    /\ pushed.tool_request >= 1
    /\ \E k \in 1..Len(thread) : thread[k].type = "tool_response"
    /\ \E k \in 1..Len(thread) : thread[k].type = "cache_hit"
    /\ Len(thread) >= 4

(***************************************************************************)
(* C28: throughout a run the in-memory history starts with one 'user'      *)
(* message that carries the prompt and is never changed or removed, every  *)
(* later element is a 'tool' message, the history only grows, and every    *)
(* model call is given the whole history accumulated up to it.             *)
(***************************************************************************)
C28_HistoryShape ==
    /\ messages # <<>> =>
          /\ messages[1] = [role |-> "user", parts |-> <<[text |-> prompt]>>]
          /\ \A k \in 2..Len(messages) : messages[k].role = "tool"
    /\ \A k \in 1..Len(model_calls) :
          /\ Len(messages) >= k
          /\ model_calls[k] = SubSeq(messages, 1, k)
    /\ pc = "in_model" => Len(messages) = Len(model_calls) + 1

C28_HistoryGrows ==
    messages # <<>> =>
        /\ Len(messages') >= Len(messages)
        /\ SubSeq(messages', 1, Len(messages)) = messages

C28_HistoryAccumulates == []C28_HistoryShape /\ [][C28_HistoryGrows]_vars

\* a run has returned after three model calls, the last of which was given
\* the user message and the tool messages of the two turns before it
C28_Witness ==
    /\ ReturnedNormally
    /\ Len(model_calls) = 3
    /\ Len(messages) = 3
    /\ Len(model_calls[3]) = 3

(***************************************************************************)
(* C29: every tool result the dispatcher records is a text and never       *)
(* None, in the step trace, in the batched history message and in the      *)
(* tool_response log: the result of a tool that returned None is the empty *)
(* text, the result of an unknown tool and of a tool that raised is the    *)
(* error text, and the result of a tool that returned a text is that text. *)
(***************************************************************************)
\* the result the dispatcher has to record for request r, made by 'call'
RecordedFor(r, call) ==
    IF FindTool(call.name) = NoTool
    THEN "Error: Tool '" \o call.name
            \o "' does not exist. Please choose from the available tools."
    ELSE LET v == tool_invocations[
                    CHOOSE k \in 1..Len(tool_invocations) :
                        tool_invocations[k].request = r]
         IN  IF v.outcome.kind = "raise"
             THEN "Error: Failed to execute tool '" \o call.name
                     \o "'. Reason: " \o v.outcome.value
             ELSE IF v.outcome.value = None THEN ""
             ELSE v.outcome.value

\* the results in the function_response parts of the history, in order
RECURSIVE HistoryResults(_)
HistoryResults(history) ==
    IF history = <<>> THEN <<>>
    ELSE LET m == Head(history)
         IN  (IF m.role = "tool"
              THEN [p \in 1..Len(m.parts) |->
                       m.parts[p].function_response.response.content]
              ELSE <<>>)
             \o HistoryResults(Tail(history))

C29_ResultsAreText ==
    LET n == Len(intermediate_steps)
        turn == Len(tool_result_parts_for_history)
        inTurn == IF pc \in {"log_call", "dispatch", "in_tool", "log_response"}
                  THEN turn ELSE 0
        responses == SelectSeq(thread, LAMBDA m : m.type = "tool_response")
    IN  /\ \A k \in 1..n :
             /\ intermediate_steps[k][2] # None
             /\ intermediate_steps[k][2] \in STRING
             /\ intermediate_steps[k][2] =
                   RecordedFor(k, intermediate_steps[k][1])
        /\ pc = "log_response" =>
             func_results = RecordedFor(n + 1, func_call_parts[part_idx])
        /\ HistoryResults(messages) =
             [k \in 1..(n - inTurn) |-> intermediate_steps[k][2]]
        /\ \A p \in 1..inTurn :
             tool_result_parts_for_history[p].function_response.response.content
                = intermediate_steps[n - inTurn + p][2]
        /\ \A k \in 1..Len(responses) :
             /\ responses[k].content.response # None
             /\ \E r \in 1..n :
                   responses[k].content.response = intermediate_steps[r][2]

\* a tool returned None and the empty text is in the step trace, in the
\* history and in the tool_response log
C29_Witness ==
    /\ pc = "returned"
    /\ \E v \in 1..Len(tool_invocations) :
          /\ tool_invocations[v].outcome.kind = "return"
          /\ tool_invocations[v].outcome.value = None
          /\ intermediate_steps[tool_invocations[v].request][2] = ""
    /\ \E k \in 1..Len(thread) :
          /\ thread[k].type = "tool_response"
          /\ thread[k].content.response = ""

(***************************************************************************)
(* C30: update_message_content replaces the whole content and is           *)
(* idempotent: of two calls in a row with the same text for the same       *)
(* message of the thread, the second leaves the thread as the first left   *)
(* it, with the content of the message equal to the text and no message    *)
(* added, removed or reordered; and no call raises.                        *)
(***************************************************************************)
\* calls k and k + 1 name the same message of the thread and the same text
Repeated(k) ==
    /\ k + 1 <= Len(updates)
    /\ updates[k + 1].message_id = updates[k].message_id
    /\ updates[k + 1].new_content = updates[k].new_content
    /\ MatchingMessages(updates[k].before, updates[k].message_id) # {}

ContentIn(msgs, message_id) ==
    msgs[CHOOSE k \in 1..Len(msgs) : msgs[k].id = message_id].content

\* the ids of the messages in order
IdsOf(msgs) == [k \in 1..Len(msgs) |-> msgs[k].id]

C30_NeverRaisesNorReorders ==
    \A k \in 1..Len(updates) :
        /\ ~updates[k].raised
        /\ IdsOf(updates[k].after) = IdsOf(updates[k].before)
        /\ \A j \in 1..Len(updates[k].after) :
              updates[k].after[j].id # updates[k].message_id =>
                  updates[k].after[j] = updates[k].before[j]

\* the claim as stated
C30_Idempotent ==
    /\ C30_NeverRaisesNorReorders
    /\ \A k \in 1..Len(updates) :
          Repeated(k) =>
             /\ updates[k + 1].after = updates[k].after
             /\ ContentIn(updates[k].after, updates[k].message_id)
                   = updates[k].new_content

\* idempotent when the first of the two calls was applied by the store; a
\* call whose update raised has left the thread as it was
C30_IdempotentWhenApplied ==
    /\ C30_NeverRaisesNorReorders
    /\ \A k \in 1..Len(updates) :
          /\ updates[k].logged = "DB_UPDATE_ERROR" =>
                updates[k].after = updates[k].before
          /\ Repeated(k) /\ updates[k].logged # "DB_UPDATE_ERROR" =>
                /\ updates[k + 1].after = updates[k].after
                /\ ContentIn(updates[k].after, updates[k].message_id)
                      = updates[k].new_content

\* the same text was written to the same message twice, and the second
\* call matched the message without modifying it
C30_Witness ==
    /\ Len(updates) >= 2
    /\ Repeated(1)
    /\ updates[1].logged = "DB_UPDATE_SUCCESS"
    /\ updates[2].logged = "DB_UPDATE_NO_CHANGE"
    /\ stored_messages = updates[1].after

(***************************************************************************)
(* C31.  Only a credential failure or a model-service failure ends a run   *)
(* early: no exception other than that of the model call leaves LLM.run,   *)
(* and a run that acquired its credential returns only after a turn        *)
(* without tool calls, a response without candidates, or max_calls model   *)
(* calls.                                                                  *)
(***************************************************************************)
C31_OnlyCredentialOrTransportStops ==
    /\ returned.kind = "raise" => returned.exception = "TransportError"
    /\ ReturnedNormally =>
          \/ Len(model_calls) = max_calls
          \/ /\ model_responses # <<>>
             /\ LastResponse.kind \in {"text", "no_candidates"}

(***************************************************************************)
(* C32.  The inter-call delay is applied exactly before every model call   *)
(* other than the first when delay_ms > 0: no delay has been completed     *)
(* before the first model call is issued, the n-th model call (n >= 2) is  *)
(* issued only after n - 1 completed delays, never more delays than model  *)
(* calls issued are completed, and with delay_ms = 0 the run never sleeps. *)
(***************************************************************************)
\* the model calls the run has issued, the one in progress included
IssuedModelCalls == Len(model_calls) + (IF pc = "in_model" THEN 1 ELSE 0)

C32_DelayBetweenCalls ==
    /\ delay_ms = 0 => sleeps = 0 /\ pc # "sleep"
    /\ delay_ms > 0 =>
          /\ sleeps <= IssuedModelCalls
          /\ IssuedModelCalls <= sleeps + 1
          /\ pc = "sleep" => sleeps = IssuedModelCalls - 1
          /\ pc = "call" /\ IssuedModelCalls > 0 => sleeps = IssuedModelCalls

\* step by step: a model call is issued after a completed delay unless it
\* is the first, and a delay is completed only between two model calls
C32_DelayThenCall ==
    [][/\ (pc = "call" /\ pc' = "in_model") =>
             IF delay_ms > 0 /\ Len(model_calls) > 0
             THEN sleeps = Len(model_calls)
             ELSE sleeps = 0
       /\ sleeps' # sleeps =>
             /\ delay_ms > 0
             /\ sleeps' = sleeps + 1
             /\ Len(model_calls) = sleeps'
             /\ pc' = "call"]_vars

C32_DelayExactlyBetweenCalls == []C32_DelayBetweenCalls /\ C32_DelayThenCall

\* a run with a delay that slept once and has issued its second model call
C32_Witness ==
    /\ delay_ms > 0
    /\ sleeps = 1
    /\ Len(model_calls) = 2

(***************************************************************************)
(* C33.  A model response without candidates ends the run in that          *)
(* iteration with an empty final result: from that response on no model    *)
(* call and no tool call is made, the history and the thread stay as they  *)
(* were, no exception leaves the run, and the run returns "" with the      *)
(* iteration of that response counted.                                     *)
(***************************************************************************)
\* the last response of the model service had no candidates
EndedWithoutCandidates ==
    model_responses # <<>> /\ LastResponse.kind = "no_candidates"

C33_ReturnsEmpty ==
    EndedWithoutCandidates =>
        /\ pc \in {"end", "returned"}
        /\ final_result = ""
        /\ in_flight = {}
        /\ pc = "returned" =>
              /\ returned.kind = "return"
              /\ returned.final_result = ""
              /\ returned.metadata.iterations = Len(model_responses)
              /\ returned.metadata.message_history
                    = model_calls[Len(model_calls)]

\* the step that receives the response, and every step after it
C33_NothingFollows ==
    [][EndedWithoutCandidates' =>
          /\ messages' = messages
          /\ thread' = thread
          /\ db_failures' = db_failures
          /\ tool_invocations' = tool_invocations
          /\ intermediate_steps' = intermediate_steps
          /\ EndedWithoutCandidates => model_calls' = model_calls]_vars

C33_NoCandidatesEndsRun == []C33_ReturnsEmpty /\ C33_NothingFollows

\* a run with a thread that called a tool, logged it, then got a response
\* without candidates and returned
C33_Witness ==
    /\ EndedWithoutCandidates
    /\ pc = "returned"
    /\ Len(model_responses) = 2
    /\ thread # <<>>
    /\ tool_invocations # <<>>
    /\ task = "finished"

(***************************************************************************)
(* C34.  LLM.run never returns a tool output as its final result: it       *)
(* returns the authentication error, the final text of the last turn       *)
(* (parsed with jsonResults), or the empty string.  The fallback is        *)
(* Agent.run's: for a run of LLM.run that returned, it yields one value,   *)
(* the final text if that is not empty, otherwise the result of the last   *)
(* tool call of the run if that is a non-empty string, otherwise the       *)
(* apology.                                                                *)
(***************************************************************************)
\* the final result LLM.run may return in the current state
OrchestratorResults ==
    IF token_error THEN {AuthErrorText}
    ELSE IF model_responses # <<>> /\ LastResponse.kind = "text"
            /\ LastResponse.text # ""
         THEN {IF jsonResults THEN extract_json(LastResponse.text).value
               ELSE LastResponse.text}
         ELSE {""}

C34_NoSubstitutionInRun ==
    returned.kind = "return" => returned.final_result \in OrchestratorResults

C34_CallerFallback ==
    /\ Len(yielded) <= 1
    /\ yielded # <<>> => pc = "returned" /\ StartedByAgent
    /\ (StartedByAgent /\ task = "finished") => Len(yielded) = 1
    /\ yielded # <<>> =>
          yielded[1] =
             IF returned.final_result # ""
             THEN returned.final_result
             ELSE IF intermediate_steps # <<>>
                     /\ intermediate_steps[Len(intermediate_steps)][2] # ""
                  THEN intermediate_steps[Len(intermediate_steps)][2]
                  ELSE ApologyText

C34_FallbackIsTheCallers ==
    C34_NoSubstitutionInRun /\ C34_CallerFallback

\* the run ended with an empty final text after a tool call that returned
\* rows, and Agent.run yielded the rows
C34_Witness ==
    /\ pc = "returned"
    /\ returned.final_result = ""
    /\ intermediate_steps # <<>>
    /\ yielded = <<"Columns: ['count'] Data: [(100,)]">>
    /\ task = "finished"

(***************************************************************************)
(* C35.  While a run task of a thread is executing, the thread is          *)
(* registered in RUNNING_TASKS and a poll of the thread reports            *)
(* waitingForResponse = true, also when a second message is posted to the  *)
(* thread before the first run has finished.  (Stated for threads that     *)
(* are in the store and for tasks that nobody has cancelled.)              *)
(***************************************************************************)
\* what a poll of thread t would report now
WouldReportWaiting(t) ==
    IsStillWaiting(THREAD_STATUS[t], RUNNING_TASKS[t] # NoTask)

C35_ExecutingIsWaiting ==
    \A k \in LiveTasks :
        (thread_state[tasks[k].thread] = "open" /\ ~tasks[k].must_cancel) =>
            /\ RUNNING_TASKS[tasks[k].thread] # NoTask
            /\ WouldReportWaiting(tasks[k].thread)

(***************************************************************************)
(* C36.  Once every run task of a thread has ended, by completion, by an   *)
(* exception or by cancellation, the thread is not in RUNNING_TASKS and a  *)
(* poll of the thread reports waitingForResponse = false.                  *)
(***************************************************************************)
\* thread t has had run tasks and all of them have ended
AllRunsEnded(t) ==
    /\ \E k \in 1..Len(tasks) : tasks[k].thread = t
    /\ \A k \in LiveTasks : tasks[k].thread # t

C36_EndedIsNotWaiting ==
    \A t \in ThreadIds :
        AllRunsEnded(t) =>
            /\ RUNNING_TASKS[t] = NoTask
            /\ ~WouldReportWaiting(t)

Replies == {k \in 1..Len(thread) : thread[k].role \in {"model", "error"}}

C38_ReplyLeft ==
    (StartedByAgent /\ task \in {"finished", "failed"}) => Replies # {}

(***************************************************************************)
(* C39.  sql_explorer_tool stores in the report cache only the final       *)
(* report of an exploration run that ended with a final text of the model: *)
(* the text of a run that failed to authenticate, or of a run that ended   *)
(* without a final answer, is never the content of a cached report.        *)
(***************************************************************************)
C39_OnlyReportsCached ==
    \A k \in 1..Len(sql_reports_cache) :
        /\ sql_reports_cache[k].report_content # AuthErrorText
        /\ sql_reports_cache[k].report_content # ""
        /\ sql_reports_cache[k].report_content = ReportOf(Explorer)

(***************************************************************************)
(* C40.  When the cache holds a valid, non-empty report for the key of the *)
(* configuration, sql_explorer_tool returns exactly that report, starts no *)
(* exploration run and writes nothing to the cache: the entry keeps the    *)
(* cached_at of its last write, so a read finds it valid only within       *)
(* CACHE_EXPIRATION_DAYS of that write, however often it was read.         *)
(***************************************************************************)
\* the call in progress got a report from the cache
CacheHit == Truthy(explorer.cached_report)

\* the entry of the cache for the key of the call in progress
EntryOf(key) ==
    sql_reports_cache[CHOOSE k \in 1..Len(sql_reports_cache) :
                         sql_reports_cache[k].db_path = key]

C40_HitReturnsCached ==
    /\ CacheHit =>
          /\ explorer.pc \in {"log_cache_hit", "returned"}
          /\ explorer.result_text = None
          /\ \E k \in 1..Len(sql_reports_cache) :
                sql_reports_cache[k].db_path = explorer.cache_key
          /\ EntryOf(explorer.cache_key).report_content = explorer.cached_report
          /\ explorer.pc = "returned" =>
                explorer.returned
                    = [kind |-> "return", value |-> explorer.cached_report]
    /\ \A k \in 1..Len(sql_reports_cache) :
          sql_reports_cache[k].cached_at
              = last_write[sql_reports_cache[k].db_path].cached_at
    /\ LET r == cache_call[Explorer]
       IN  r.op = "read_done" /\ r.found =>
              (r.result # None <=>
                  r.read_at - last_write[r.db_path].cached_at
                      <= CACHE_EXPIRATION_DAYS)

\* the cache is written only by a call that missed, after its run
C40_HitWritesNothing ==
    [][sql_reports_cache' # sql_reports_cache =>
          /\ ~CacheHit
          /\ explorer.pc = "cache_write"
          /\ explorer' = explorer]_vars

C40_CacheHitFrame == []C40_HitReturnsCached /\ C40_HitWritesNothing

\* a report written at time 0 was returned from the cache at a later time,
\* and its entry still carries the time of the write
C40_Witness ==
    /\ CacheHit
    /\ explorer.pc = "returned"
    /\ explorer.returned.value = ReportOf(Explorer)
    /\ now > 0
    /\ EntryOf(explorer.cache_key).cached_at = 0

====
